---- MODULE Spec2Model ----
(***************************************************************************)
(* A model of keeprs' vault engine (crates/keeprs-core/src/database.rs):   *)
(* the Group/Entry tree, the vault metadata, the structural mutations, the *)
(* recycle bin and the atomic save pipeline.                               *)
(***************************************************************************)
EXTENDS Integers, Sequences, FiniteSets, TLC

\* ------------------------------------------------------------------ bounds

\* Calls of the vault's operations made in one run.
MaxCalls == 3

\* Chunks the codec writes into the temporary file during one save.
MaxChunks == 2

\* Saves started in one run.
MaxSaves == 2

\* Unhandled messages in the inbox of the GUI app when the user sends one more.
MaxInbox == 1

\* Deletes the user asks the GUI app for in one run.
MaxEdits == 2

\* How many edits the user makes in the specification of all edits.
MaxAppEdits == 1

\* How many characters the user types into the password prompt of the
\* terminal UI.
MaxTyped == 2

\* How many characters the user types into the search box of the terminal UI.
MaxQuery == 1

\* ------------------------------------------------------- values and strings

None == << >>

Some(v) == << v >>

\* Uuid::to_string(): the canonical hyphenated form of UUID number u.
UuidStr(u) == << "uuid", u >>

\* A string that is no UUID's canonical form.
NotAUuid == << "not-a-real-uuid" >>

\* str::as_bytes(): the UTF-8 encoding of a string.
AsBytes(s) == << "utf8", s >>

\* std::str::from_utf8(..).ok(): the string a byte buffer encodes, if any.
FromUtf8(b) == IF b[1] = "utf8" THEN Some(b[2]) ELSE None

Unprotected(s) == [tag |-> "Unprotected", val |-> s]

Protected(b) == [tag |-> "Protected", val |-> b]

Bytes(b) == [tag |-> "Bytes", val |-> b]

BinaryRef(r) == [tag |-> "BinaryRef", val |-> r]

ReservedKeys == {"Title", "UserName", "Password", "URL", "Notes"}

\* HashMap::insert on a field map.
Insert(m, k, v) == [x \in (DOMAIN m) \cup {k} |-> IF x = k THEN v ELSE m[x]]

EmptyMap == [x \in {} |-> ""]

\* HashMap::insert of every pair of `src`, each wrapped by Unprotected.
InsertAllUnprotected(m, src) ==
    [x \in (DOMAIN m) \cup (DOMAIN src) |->
        IF x \in DOMAIN src THEN Unprotected(src[x]) ELSE m[x]]

\* ------------------------------------------------------------------- nodes

\* keepass::db::Entry::new() with the UUID the generator returned.
NewEntry(u) == [kind |-> "Entry", uuid |-> u, fields |-> EmptyMap]

\* keepass::db::Group::new(name) with the UUID the generator returned.
NewGroup(u, name) ==
    [kind |-> "Group", uuid |-> u, name |-> name, icon_id |-> None,
     children |-> << >>]

\* A faulty RemoveAt: the position is taken to count from 0.
RemoveAt_from_zero(s, i) == SubSeq(s, 1, i - 2) \o SubSeq(s, i, Len(s))

RemoveAt(s, i) == SubSeq(s, 1, i - 1) \o SubSeq(s, i + 1, Len(s))

ReplaceAt(s, i, v) == [s EXCEPT ![i] = v]

\* keepass::db::Entry::get(key): the text of a field, none for binary values.
EntryGet(ke, key) ==
    IF key \notin DOMAIN ke.fields THEN None
    ELSE LET v == ke.fields[key] IN
         CASE v.tag = "Unprotected" -> Some(v.val)
           [] v.tag = "Protected" -> FromUtf8(v.val)
           [] OTHER -> None

UnwrapOrDefault(o) == IF o = None THEN "" ELSE o[1]

\* ------------------------------------------------------------- conversion

\* str::parse::<usize>() on the reference strings the model uses.
ParseUsize(r) ==
    CASE r = "0" -> Some(0)
      [] r = "1" -> Some(1)
      [] r = "7" -> Some(7)
      [] OTHER -> None

\* A faulty PoolGet: an index past the end wraps around.
PoolGet_wraps(pool, index) ==
    IF pool = << >> THEN None ELSE Some(pool[(index % Len(pool)) + 1])

\* Vec::get(index) on the header's attachment pool (0-based).
PoolGet(pool, index) ==
    IF index < Len(pool) THEN Some(pool[index + 1]) ELSE None

\* The custom fields convert_entry collects: plain text under a non-reserved
\* key, and protected text under a non-reserved key, read through get().
ConvertCustomFields(ke) ==
    LET keys == {k \in (DOMAIN ke.fields) \ ReservedKeys :
                    \/ ke.fields[k].tag = "Unprotected"
                    \/ /\ ke.fields[k].tag = "Protected"
                       /\ EntryGet(ke, k) # None}
    IN [k \in keys |-> EntryGet(ke, k)[1]]

\* A faulty ConvertAttachments: the reserved keys are not skipped.
ConvertAttachments_reserved_too(pool, ke) ==
    {[filename |-> k, data |-> ke.fields[k].val] :
        k \in {x \in DOMAIN ke.fields : ke.fields[x].tag = "Bytes"}}

\* The attachments convert_entry collects. The field map is a HashMap, whose
\* iteration order is unspecified, so the Vec is modelled by its set of items.
ConvertAttachments(pool, ke) ==
    LET keys == (DOMAIN ke.fields) \ ReservedKeys
        inline == {k \in keys : ke.fields[k].tag = "Bytes"}
        pooled == {k \in keys :
                      /\ ke.fields[k].tag = "BinaryRef"
                      /\ ParseUsize(ke.fields[k].val) # None
                      /\ PoolGet(pool, ParseUsize(ke.fields[k].val)[1]) # None}
    IN {[filename |-> k, data |-> ke.fields[k].val] : k \in inline}
       \cup {[filename |-> k,
              data |-> PoolGet(pool, ParseUsize(ke.fields[k].val)[1])[1]] :
                k \in pooled}

\* KeepassDatabase::convert_entry
convert_entry(pool, ke) ==
    [uuid |-> UuidStr(ke.uuid),
     title |-> UnwrapOrDefault(EntryGet(ke, "Title")),
     username |-> UnwrapOrDefault(EntryGet(ke, "UserName")),
     password |-> UnwrapOrDefault(EntryGet(ke, "Password")),
     url |-> UnwrapOrDefault(EntryGet(ke, "URL")),
     notes |-> UnwrapOrDefault(EntryGet(ke, "Notes")),
     custom_fields |-> ConvertCustomFields(ke),
     otp |-> EntryGet(ke, "otp"),
     attachments |-> ConvertAttachments(pool, ke)]

\* ------------------------------------------------------------- navigation

RECURSIVE find_entry_in_group(_, _, _)
RECURSIVE FindEntryFrom(_, _, _, _)
\* The loop of find_entry_in_group from child i on.
FindEntryFrom(pool, children, i, uuid) ==
    IF i > Len(children) THEN None
    ELSE LET node == children[i] IN
         IF node.kind = "Entry"
         THEN IF UuidStr(node.uuid) = uuid
              THEN Some(convert_entry(pool, node))
              ELSE FindEntryFrom(pool, children, i + 1, uuid)
         ELSE LET found == find_entry_in_group(pool, node, uuid) IN
              IF found # None THEN found
              ELSE FindEntryFrom(pool, children, i + 1, uuid)

\* KeepassDatabase::find_entry_in_group
find_entry_in_group(pool, group, uuid) ==
    FindEntryFrom(pool, group.children, 1, uuid)

\* KeepassDatabase::find_entry
find_entry(db, uuid) == find_entry_in_group(db.header_attachments, db.root, uuid)

\* A faulty contains_node: only the group and its direct children are looked
\* at.
contains_node_direct_only(group, target_uuid) ==
    \/ UuidStr(group.uuid) = target_uuid
    \/ \E i \in 1..Len(group.children) :
          UuidStr(group.children[i].uuid) = target_uuid

RECURSIVE contains_node(_, _)
\* KeepassDatabase::contains_node
contains_node(group, target_uuid) ==
    \/ UuidStr(group.uuid) = target_uuid
    \/ \E i \in 1..Len(group.children) :
          LET node == group.children[i] IN
          IF node.kind = "Group" THEN contains_node(node, target_uuid)
          ELSE UuidStr(node.uuid) = target_uuid

RECURSIVE is_descendant_of(_, _, _)
\* KeepassDatabase::is_descendant_of
is_descendant_of(group, target_uuid, ancestor_uuid) ==
    IF UuidStr(group.uuid) = ancestor_uuid
    THEN contains_node(group, target_uuid)
    ELSE \E i \in 1..Len(group.children) :
            /\ group.children[i].kind = "Group"
            /\ is_descendant_of(group.children[i], target_uuid, ancestor_uuid)

\* KeepassDatabase::get_recycle_bin_uuid
get_recycle_bin_uuid(db) ==
    IF db.meta.recyclebin_uuid = None THEN None
    ELSE Some(UuidStr(db.meta.recyclebin_uuid[1]))

\* KeepassDatabase::is_recycle_bin
is_recycle_bin(db, uuid) ==
    /\ db.meta.recyclebin_uuid # None
    /\ UuidStr(db.meta.recyclebin_uuid[1]) = uuid

\* A faulty is_inside_recycle_bin: only the bin itself counts as inside.
is_inside_recycle_bin_self_only(db, uuid) ==
    /\ db.meta.recyclebin_uuid # None
    /\ UuidStr(db.meta.recyclebin_uuid[1]) = uuid

\* KeepassDatabase::is_inside_recycle_bin
is_inside_recycle_bin(db, uuid) ==
    IF db.meta.recyclebin_uuid # None
    THEN LET bin_uuid_str == UuidStr(db.meta.recyclebin_uuid[1]) IN
         IF bin_uuid_str = uuid THEN TRUE
         ELSE is_descendant_of(db.root, uuid, bin_uuid_str)
    ELSE FALSE

\* --------------------------------------------------------- mutation engine

RECURSIVE add_node_recursive(_, _, _)
RECURSIVE AddNodeFrom(_, _, _, _)
\* The loop of add_node_recursive from child i on: the first child group
\* whose subtree takes the node.
AddNodeFrom(group, i, target_uuid, new_node) ==
    IF i > Len(group.children) THEN [group |-> group, ok |-> FALSE]
    ELSE IF group.children[i].kind = "Group"
    THEN LET r == add_node_recursive(group.children[i], target_uuid, new_node) IN
         IF r.ok
         THEN [group |-> [group EXCEPT !.children = ReplaceAt(@, i, r.group)],
               ok |-> TRUE]
         ELSE AddNodeFrom(group, i + 1, target_uuid, new_node)
    ELSE AddNodeFrom(group, i + 1, target_uuid, new_node)

\* A faulty add_node_recursive: a search that finds no group with the target
\* UUID falls back to the group it started from.
add_node_recursive_fallback(group, target_uuid, new_node) ==
    IF UuidStr(group.uuid) = target_uuid
    THEN [group |-> [group EXCEPT !.children = Append(@, new_node)], ok |-> TRUE]
    ELSE LET r == AddNodeFrom(group, 1, target_uuid, new_node) IN
         IF r.ok THEN r
         ELSE [group |-> [group EXCEPT !.children = Append(@, new_node)],
               ok |-> TRUE]

\* A faulty add_node_recursive: the node is put before the children the group
\* has.
add_node_recursive_push_front(group, target_uuid, new_node) ==
    IF UuidStr(group.uuid) = target_uuid
    THEN [group |-> [group EXCEPT !.children = << new_node >> \o @], ok |-> TRUE]
    ELSE AddNodeFrom(group, 1, target_uuid, new_node)

\* KeepassDatabase::add_node_recursive
add_node_recursive(group, target_uuid, new_node) ==
    IF UuidStr(group.uuid) = target_uuid
    THEN [group |-> [group EXCEPT !.children = Append(@, new_node)], ok |-> TRUE]
    ELSE AddNodeFrom(group, 1, target_uuid, new_node)

\* A faulty Position: the kind of the child is not looked at.
Position_any_kind(children, target_uuid, is_group) ==
    LET hits == {i \in 1..Len(children) : UuidStr(children[i].uuid) = target_uuid}
    IN IF hits = {} THEN 0 ELSE CHOOSE i \in hits : \A j \in hits : i <= j

\* Iterator::position over the children: the first child of the requested
\* kind with the target UUID, 0 when there is none.
Position(children, target_uuid, is_group) ==
    LET want == IF is_group THEN "Group" ELSE "Entry"
        hits == {i \in 1..Len(children) :
                    /\ children[i].kind = want
                    /\ UuidStr(children[i].uuid) = target_uuid}
    IN IF hits = {} THEN 0 ELSE CHOOSE i \in hits : \A j \in hits : i <= j

RECURSIVE delete_node_recursive(_, _, _)
RECURSIVE DeleteNodeFrom(_, _, _, _)
\* The second loop of delete_node_recursive from child i on.
DeleteNodeFrom(group, i, target_uuid, is_group) ==
    IF i > Len(group.children) THEN [group |-> group, removed |-> None]
    ELSE IF group.children[i].kind = "Group"
    THEN LET r == delete_node_recursive(group.children[i], target_uuid, is_group) IN
         IF r.removed # None
         THEN [group |-> [group EXCEPT !.children = ReplaceAt(@, i, r.group)],
               removed |-> r.removed]
         ELSE DeleteNodeFrom(group, i + 1, target_uuid, is_group)
    ELSE DeleteNodeFrom(group, i + 1, target_uuid, is_group)

\* A faulty delete_node_recursive: it returns a clone of the node it finds and
\* leaves the node in place.
delete_node_recursive_keep(group, target_uuid, is_group) ==
    LET pos == Position(group.children, target_uuid, is_group) IN
    IF pos # 0
    THEN [group |-> group, removed |-> Some(group.children[pos])]
    ELSE DeleteNodeFrom(group, 1, target_uuid, is_group)

\* KeepassDatabase::delete_node_recursive
delete_node_recursive(group, target_uuid, is_group) ==
    LET pos == Position(group.children, target_uuid, is_group) IN
    IF pos # 0
    THEN [group |-> [group EXCEPT !.children = RemoveAt(@, pos)],
          removed |-> Some(group.children[pos])]
    ELSE DeleteNodeFrom(group, 1, target_uuid, is_group)

\* A faulty WriteFields: the URL is written under the key "Url".
WriteFields_url_key(fields, entry) ==
    LET f1 == Insert(fields, "Title", Unprotected(entry.title))
        f2 == Insert(f1, "UserName", Unprotected(entry.username))
        f3 == Insert(f2, "Password", Protected(AsBytes(entry.password)))
        f4 == Insert(f3, "Url", Unprotected(entry.url))
        f5 == Insert(f4, "Notes", Unprotected(entry.notes))
    IN InsertAllUnprotected(f5, entry.custom_fields)

\* The field writes shared by add_entry and update_entry_recursive.
WriteFields(fields, entry) ==
    LET f1 == Insert(fields, "Title", Unprotected(entry.title))
        f2 == Insert(f1, "UserName", Unprotected(entry.username))
        f3 == Insert(f2, "Password", Protected(AsBytes(entry.password)))
        f4 == Insert(f3, "URL", Unprotected(entry.url))
        f5 == Insert(f4, "Notes", Unprotected(entry.notes))
    IN InsertAllUnprotected(f5, entry.custom_fields)

RECURSIVE UpdateEntryFrom_reinsert(_, _, _)
\* A faulty UpdateEntryFrom: the entry is taken out, rewritten and pushed back,
\* so it ends up last in its group.
UpdateEntryFrom_reinsert(group, i, entry) ==
    IF i > Len(group.children) THEN [group |-> group, ok |-> FALSE]
    ELSE LET node == group.children[i] IN
         IF node.kind = "Entry" /\ UuidStr(node.uuid) = entry.uuid
         THEN [group |-> [group EXCEPT !.children =
                             Append(RemoveAt(@, i),
                                    [node EXCEPT !.fields = WriteFields(@, entry)])],
               ok |-> TRUE]
         ELSE IF node.kind = "Group"
                 /\ UpdateEntryFrom_reinsert(node, 1, entry).ok
         THEN [group |-> [group EXCEPT !.children =
                             ReplaceAt(@, i, UpdateEntryFrom_reinsert(node, 1, entry).group)],
               ok |-> TRUE]
         ELSE UpdateEntryFrom_reinsert(group, i + 1, entry)

RECURSIVE update_entry_recursive(_, _)
RECURSIVE UpdateEntryFrom(_, _, _)
\* The loop of update_entry_recursive from child i on.
UpdateEntryFrom(group, i, entry) ==
    IF i > Len(group.children) THEN [group |-> group, ok |-> FALSE]
    ELSE LET node == group.children[i] IN
         IF node.kind = "Entry"
         THEN IF UuidStr(node.uuid) = entry.uuid
              THEN [group |-> [group EXCEPT !.children = ReplaceAt(@, i,
                                  [node EXCEPT !.fields = WriteFields(@, entry)])],
                    ok |-> TRUE]
              ELSE UpdateEntryFrom(group, i + 1, entry)
         ELSE LET r == update_entry_recursive(node, entry) IN
              IF r.ok
              THEN [group |-> [group EXCEPT !.children = ReplaceAt(@, i, r.group)],
                    ok |-> TRUE]
              ELSE UpdateEntryFrom(group, i + 1, entry)

\* KeepassDatabase::update_entry_recursive
update_entry_recursive(group, entry) == UpdateEntryFrom(group, 1, entry)

\* KeepassDatabase::update_entry
update_entry(db, entry) ==
    LET r == update_entry_recursive(db.root, entry) IN
    IF r.ok THEN [db |-> [db EXCEPT !.root = r.group], res |-> "Ok", ret |-> None]
    ELSE [db |-> db, res |-> "NotFound", ret |-> None]

\* A faulty add_entry: a draft that carries a UUID keeps it.
add_entry_keep_uuid(db, parent_group_uuid, entry, new_uuid) ==
    LET kept == IF entry.uuid[1] = "uuid" THEN entry.uuid[2] ELSE new_uuid
        new_entry == [NewEntry(kept) EXCEPT !.fields = WriteFields(@, entry)]
        uuid == UuidStr(new_entry.uuid)
        r == add_node_recursive(db.root, parent_group_uuid, new_entry)
    IN IF r.ok
       THEN [db |-> [db EXCEPT !.root = r.group], res |-> "Ok", ret |-> Some(uuid)]
       ELSE [db |-> db, res |-> "NotFound", ret |-> None]

\* KeepassDatabase::add_entry, with new_uuid the UUID Entry::new() drew.
add_entry(db, parent_group_uuid, entry, new_uuid) ==
    LET new_entry == [NewEntry(new_uuid) EXCEPT !.fields = WriteFields(@, entry)]
        uuid == UuidStr(new_entry.uuid)
        r == add_node_recursive(db.root, parent_group_uuid, new_entry)
    IN IF r.ok
       THEN [db |-> [db EXCEPT !.root = r.group], res |-> "Ok", ret |-> Some(uuid)]
       ELSE [db |-> db, res |-> "NotFound", ret |-> None]

\* A faulty add_group: the child groups of the draft are created as well.
add_group_with_children(db, parent_group_uuid, group, new_uuid) ==
    LET new_group == [NewGroup(new_uuid, group.name) EXCEPT !.children =
                         [i \in 1..Len(group.children) |->
                             NewGroup(new_uuid + i, group.children[i].name)]]
        uuid == UuidStr(new_group.uuid)
        r == add_node_recursive(db.root, parent_group_uuid, new_group)
    IN IF r.ok
       THEN [db |-> [db EXCEPT !.root = r.group], res |-> "Ok", ret |-> Some(uuid)]
       ELSE [db |-> db, res |-> "NotFound", ret |-> None]

\* KeepassDatabase::add_group, with new_uuid the UUID Group::new() drew.
add_group(db, parent_group_uuid, group, new_uuid) ==
    LET new_group == NewGroup(new_uuid, group.name)
        uuid == UuidStr(new_group.uuid)
        r == add_node_recursive(db.root, parent_group_uuid, new_group)
    IN IF r.ok
       THEN [db |-> [db EXCEPT !.root = r.group], res |-> "Ok", ret |-> Some(uuid)]
       ELSE [db |-> db, res |-> "NotFound", ret |-> None]

\* ------------------------------------------------------------- recycle bin

\* The icon code get_or_create_recycle_bin gives the bin (trash).
TrashIcon == 43

\* A faulty get_or_create_recycle_bin: a bin is created on every call.
get_or_create_recycle_bin_always(db, new_uuid) ==
    LET group == [NewGroup(new_uuid, "Recycle Bin") EXCEPT !.icon_id = Some(TrashIcon)]
    IN [db |-> [db EXCEPT !.root.children = Append(@, group),
                          !.meta.recyclebin_uuid = Some(group.uuid),
                          !.meta.recyclebin_enabled = Some(TRUE)],
        uuid |-> UuidStr(group.uuid),
        created |-> TRUE]

\* KeepassDatabase::get_or_create_recycle_bin, with new_uuid the UUID
\* Group::new() draws when the bin is created.
get_or_create_recycle_bin(db, new_uuid) ==
    IF db.meta.recyclebin_uuid # None
    THEN [db |-> db, uuid |-> UuidStr(db.meta.recyclebin_uuid[1]), created |-> FALSE]
    ELSE LET group == [NewGroup(new_uuid, "Recycle Bin") EXCEPT
                          !.icon_id = Some(TrashIcon)]
         IN [db |-> [db EXCEPT !.root.children = Append(@, group),
                               !.meta.recyclebin_uuid = Some(group.uuid),
                               !.meta.recyclebin_enabled = Some(TRUE)],
             uuid |-> UuidStr(group.uuid),
             created |-> TRUE]

\* A faulty recycle_node: the node it found is pushed into the bin of the tree
\* it was found in, so the node is copied, not moved.
recycle_node_copy(db, uuid, is_group, new_uuid) ==
    LET bin == get_or_create_recycle_bin(db, new_uuid)
        recycle_bin_uuid == bin.uuid
    IN IF recycle_bin_uuid = uuid
       THEN [db |-> bin.db, res |-> "GuardViolation", ret |-> None]
       ELSE LET d == delete_node_recursive(bin.db.root, uuid, is_group) IN
            IF d.removed # None
            THEN LET a == add_node_recursive(bin.db.root, recycle_bin_uuid,
                                             d.removed[1]) IN
                 IF a.ok
                 THEN [db |-> [bin.db EXCEPT !.root = a.group],
                       res |-> "Ok", ret |-> None]
                 ELSE [db |-> [bin.db EXCEPT !.root = d.group],
                       res |-> "MoveFailed", ret |-> None]
            ELSE [db |-> bin.db, res |-> "NotFound", ret |-> None]

\* A faulty recycle_node: the guard against recycling the bin is missing.
recycle_node_no_guard(db, uuid, is_group, new_uuid) ==
    LET bin == get_or_create_recycle_bin(db, new_uuid)
        recycle_bin_uuid == bin.uuid
        d == delete_node_recursive(bin.db.root, uuid, is_group)
    IN IF d.removed # None
       THEN LET a == add_node_recursive(d.group, recycle_bin_uuid, d.removed[1]) IN
            IF a.ok
            THEN [db |-> [bin.db EXCEPT !.root = a.group],
                  res |-> "Ok", ret |-> None]
            ELSE [db |-> [bin.db EXCEPT !.root = d.group],
                  res |-> "MoveFailed", ret |-> None]
       ELSE [db |-> bin.db, res |-> "NotFound", ret |-> None]

\* KeepassDatabase::recycle_node
recycle_node(db, uuid, is_group, new_uuid) ==
    LET bin == get_or_create_recycle_bin(db, new_uuid)
        recycle_bin_uuid == bin.uuid
    IN IF recycle_bin_uuid = uuid
       THEN [db |-> bin.db, res |-> "GuardViolation", ret |-> None]
       ELSE LET d == delete_node_recursive(bin.db.root, uuid, is_group) IN
            IF d.removed # None
            THEN LET a == add_node_recursive(d.group, recycle_bin_uuid, d.removed[1]) IN
                 IF a.ok
                 THEN [db |-> [bin.db EXCEPT !.root = a.group],
                       res |-> "Ok", ret |-> None]
                 ELSE [db |-> [bin.db EXCEPT !.root = d.group],
                       res |-> "MoveFailed", ret |-> None]
            ELSE [db |-> bin.db, res |-> "NotFound", ret |-> None]

\* KeepassDatabase::delete_entry
delete_entry(db, uuid, new_uuid) == recycle_node(db, uuid, FALSE, new_uuid)

\* KeepassDatabase::delete_group
delete_group(db, uuid, new_uuid) == recycle_node(db, uuid, TRUE, new_uuid)

RECURSIVE find_node_recursive_mut(_, _)
RECURSIVE FindNodeFrom(_, _, _)
\* The loop of find_node_recursive_mut from child i on. The &mut Node it
\* returns is modelled by the node's path of child positions.
FindNodeFrom(group, i, target_uuid) ==
    IF i > Len(group.children) THEN None
    ELSE LET node == group.children[i] IN
         IF node.kind = "Group"
         THEN IF UuidStr(node.uuid) = target_uuid THEN Some(<< i >>)
              ELSE LET found == find_node_recursive_mut(node, target_uuid) IN
                   IF found # None THEN Some(<< i >> \o found[1])
                   ELSE FindNodeFrom(group, i + 1, target_uuid)
         ELSE FindNodeFrom(group, i + 1, target_uuid)

\* KeepassDatabase::find_node_recursive_mut
find_node_recursive_mut(group, target_uuid) == FindNodeFrom(group, 1, target_uuid)

RECURSIVE ClearChildrenAt(_, _)
\* g.children.clear() on the group at `path` below `group`.
ClearChildrenAt(group, path) ==
    IF path = << >> THEN [group EXCEPT !.children = << >>]
    ELSE [group EXCEPT !.children =
             ReplaceAt(@, Head(path), ClearChildrenAt(@[Head(path)], Tail(path)))]

\* A faulty empty_recycle_bin: it drops the last child of the bin, not all.
empty_recycle_bin_pop(db) ==
    IF db.meta.recyclebin_uuid # None
    THEN LET uuid_str == UuidStr(db.meta.recyclebin_uuid[1])
             node == find_node_recursive_mut(db.root, uuid_str)
             bin == delete_node_recursive(db.root, uuid_str, TRUE).removed
         IN IF node # None /\ bin[1].children # << >>
            THEN [db |-> [db EXCEPT !.root =
                            delete_node_recursive(@,
                                UuidStr(bin[1].children[Len(bin[1].children)].uuid),
                                bin[1].children[Len(bin[1].children)].kind = "Group").group],
                  res |-> "Ok", ret |-> None]
            ELSE [db |-> db, res |-> "Ok", ret |-> None]
    ELSE [db |-> db, res |-> "Ok", ret |-> None]

\* A faulty empty_recycle_bin: the bin group goes with its children.
empty_recycle_bin_remove_bin(db) ==
    IF db.meta.recyclebin_uuid # None
    THEN [db |-> [db EXCEPT !.root =
                     delete_node_recursive(@, UuidStr(db.meta.recyclebin_uuid[1]), TRUE).group],
          res |-> "Ok", ret |-> None]
    ELSE [db |-> db, res |-> "Ok", ret |-> None]

\* KeepassDatabase::empty_recycle_bin
empty_recycle_bin(db) ==
    IF db.meta.recyclebin_uuid # None
    THEN LET uuid_str == UuidStr(db.meta.recyclebin_uuid[1])
             node == find_node_recursive_mut(db.root, uuid_str)
         IN IF node # None
            THEN [db |-> [db EXCEPT !.root = ClearChildrenAt(@, node[1])],
                  res |-> "Ok", ret |-> None]
            ELSE [db |-> db, res |-> "Ok", ret |-> None]
    ELSE [db |-> db, res |-> "Ok", ret |-> None]

\* A faulty delete_entry_permanently: the recycle bin is emptied on the way.
delete_entry_permanently_empties_bin(db, uuid) ==
    LET d == delete_node_recursive(db.root, uuid, FALSE) IN
    IF d.removed # None
    THEN [db |-> empty_recycle_bin([db EXCEPT !.root = d.group]).db,
          res |-> "Ok", ret |-> None]
    ELSE [db |-> db, res |-> "NotFound", ret |-> None]

\* KeepassDatabase::delete_entry_permanently
delete_entry_permanently(db, uuid) ==
    LET d == delete_node_recursive(db.root, uuid, FALSE) IN
    IF d.removed # None
    THEN [db |-> [db EXCEPT !.root = d.group], res |-> "Ok", ret |-> None]
    ELSE [db |-> db, res |-> "NotFound", ret |-> None]

\* A faulty delete_group_permanently: deleting the group the metadata names as
\* the recycle bin forgets the bin.
delete_group_permanently_forget_bin(db, uuid) ==
    LET d == delete_node_recursive(db.root, uuid, TRUE) IN
    IF d.removed # None
    THEN [db |-> [db EXCEPT !.root = d.group,
                            !.meta.recyclebin_uuid =
                                IF is_recycle_bin(db, uuid) THEN None ELSE @],
          res |-> "Ok", ret |-> None]
    ELSE [db |-> db, res |-> "NotFound", ret |-> None]

\* KeepassDatabase::delete_group_permanently
delete_group_permanently(db, uuid) ==
    LET d == delete_node_recursive(db.root, uuid, TRUE) IN
    IF d.removed # None
    THEN [db |-> [db EXCEPT !.root = d.group], res |-> "Ok", ret |-> None]
    ELSE [db |-> db, res |-> "NotFound", ret |-> None]

\* ------------------------------------------------------------ tree queries

RECURSIVE NodeUuids(_)
\* The bag of UUIDs of a node and its descendants, as a sequence in
\* document order.
NodeUuids(node) ==
    IF node.kind = "Entry" THEN << node.uuid >>
    ELSE LET RECURSIVE kids(_)
             kids(i) == IF i > Len(node.children) THEN << >>
                        ELSE NodeUuids(node.children[i]) \o kids(i + 1)
         IN << node.uuid >> \o kids(1)

Range(s) == {s[i] : i \in 1..Len(s)}

\* The UUIDs present in the tree.
TreeUuids(root) == Range(NodeUuids(root))

\* No UUID occurs twice in the tree.
UniqueUuids(root) == Len(NodeUuids(root)) = Cardinality(TreeUuids(root))

RECURSIVE Groups(_)
\* The groups of the subtree of `group`, itself included.
Groups(group) ==
    {group} \cup UNION {Groups(group.children[i]) :
                           i \in {j \in 1..Len(group.children) :
                                     group.children[j].kind = "Group"}}

RECURSIVE Nodes(_)
\* The nodes of the subtree of `node`, itself included.
Nodes(node) ==
    IF node.kind = "Entry" THEN {node}
    ELSE {node} \cup UNION {Nodes(node.children[i]) : i \in 1..Len(node.children)}

\* The groups of the tree that hold node number u as a direct child.
ParentsOf(root, u) ==
    {g.uuid : g \in {h \in Groups(root) :
                        \E i \in 1..Len(h.children) : h.children[i].uuid = u}}

\* The nodes of the tree with UUID number u.
NodesWith(root, u) == {n \in Nodes(root) : n.uuid = u}

\* ------------------------------------------------------------- persistence

\* A file name as its dot-separated components: vault.kdbx is
\* << "vault", "kdbx" >>.

\* Path::extension(): the component after the last dot, if there is a dot.
Extension(p) == IF Len(p) > 1 THEN Some(<< p[Len(p)] >>) ELSE None

\* PathBuf::set_extension(ext), with ext given by its components.
SetExtension(p, ext) ==
    IF Len(p) > 1 THEN SubSeq(p, 1, Len(p) - 1) \o ext ELSE p \o ext

\* A faulty temp path: the extension is never changed, so the temporary file
\* is the destination.
TempPath_unchanged(p) == p

\* The temp_path save() derives from self.path.
TempPath(p) ==
    IF Extension(p) # None
    THEN SetExtension(p, Extension(p)[1] \o << "tmp" >>)
    ELSE SetExtension(p, << "tmp" >>)

\* Database::save, the external codec: the bytes of a vault, which it hands
\* to the file in MaxChunks writes.
Serialize(d) == [i \in 1..MaxChunks |-> [vault |-> d, part |-> i]]

\* A file's contents are one whole serialization.
IsWhole(bytes) == bytes # << >> /\ bytes = Serialize(bytes[1].vault)

\* A faulty Rename: the file is copied, the source stays.
Rename_copy(fs, from, to) ==
    [q \in (DOMAIN fs) \cup {to} |-> IF q = to THEN fs[from] ELSE fs[q]]

\* std::fs::rename(from, to) on a file system.
Rename(fs, from, to) ==
    [q \in ((DOMAIN fs) \ {from}) \cup {to} |-> IF q = to THEN fs[from] ELSE fs[q]]

\* File::create(path) on a file system: the file exists and is empty.
Create(fs, path) ==
    [q \in (DOMAIN fs) \cup {path} |-> IF q = path THEN << >> ELSE fs[q]]

\* ------------------------------------------------------------------- state

VARIABLES
    db,       \* KeepassDatabase.db: [root, meta, header_attachments]
    issued,   \* how many UUIDs Uuid::new_v4 has handed out (numbers 1..issued)
    purged,   \* UUIDs a permanent delete or empty_recycle_bin took out of the tree
    last,     \* the last call: [op, uuid, entry, res, ret]
    pre,      \* db as it was when the last call was made
    calls,    \* calls made so far
    disk,     \* the file system: the contents of each file that exists
    save,     \* KeepassDatabase.path and the position of save() in its body
    app,      \* the fields of App: unsaved_changes, is_saving, current_group_uuid
              \* and the password confirmation dialog it owns
    inbox,    \* the AppInput messages sent and not yet handled, oldest first
    workers,  \* the threads SaveDatabase spawned that have not yet sent SaveFinished
    hist,     \* the last delete or save message handled and the state the save in
              \* flight started from
    browser,  \* the entry browser component: its fields and its unhandled inputs
    tui       \* the App of the terminal UI: its fields

vars == << db, issued, purged, last, pre, calls, disk, save, app, inbox, workers, hist,
          browser, tui >>

guiVars == << app, inbox, workers, hist, browser, tui >>

EmptyString == << "" >>

\* The entry "Bank" of the initial vault.
BankEntry ==
    [kind |-> "Entry", uuid |-> 3,
     fields |-> ("Title" :> Unprotected("Bank")
                 @@ "UserName" :> Unprotected("alice")
                 @@ "Password" :> Protected(AsBytes("s3cret"))
                 @@ "URL" :> Unprotected("https://bank")
                 @@ "Notes" :> Unprotected("")
                 @@ "pin" :> Unprotected("0000"))]

\* The vault the file holds when it is unlocked: the group "Finance" with
\* the entry "Bank", no recycle bin yet.
InitialDb ==
    [root |-> [kind |-> "Group", uuid |-> 1, name |-> "Root", icon_id |-> None,
               children |-> << [kind |-> "Group", uuid |-> 2, name |-> "Finance",
                                icon_id |-> None,
                                children |-> << BankEntry >>] >>],
     meta |-> [recyclebin_uuid |-> None, recyclebin_enabled |-> None],
     header_attachments |-> << >>]

\* How many UUIDs the initial vault uses: the numbers 1..InitialIssued.
InitialIssued == Len(NodeUuids(InitialDb.root))

\* models::Entry drafts a caller passes to add_entry and update_entry.
Draft(uuid, title, custom_fields) ==
    [uuid |-> uuid, title |-> title, username |-> "bob", password |-> "hunter2",
     url |-> "https://mail", notes |-> "n", custom_fields |-> custom_fields,
     otp |-> None, attachments |-> {}]

\* The drafts passed to add_entry: a blank form, a form that still carries
\* the UUID text of the entry it was filled from and a custom field, and a
\* form whose custom field uses a reserved key.
AddDrafts ==
    {Draft(EmptyString, "Mail", EmptyMap),
     Draft(UuidStr(3), "Mail", "pin" :> "1234"),
     Draft(EmptyString, "Mail", "Title" :> "Shadow")}

\* models::Group drafts a caller passes to add_group.
GroupDraft(name, children) ==
    [uuid |-> EmptyString, name |-> name, children |-> children,
     entries |-> << >>, is_recycle_bin |-> FALSE]

GroupDrafts ==
    {GroupDraft("Work", << >>),
     GroupDraft("Work", << GroupDraft("Sub", << >>) >>)}

\* The UUID strings a caller passes: those of the UUIDs handed out so far and
\* one that is no UUID.
UuidArgs == {UuidStr(u) : u \in 1..issued} \cup {NotAUuid}

NoCall == [op |-> "none", uuid |-> NotAUuid, entry |-> None, res |-> "Ok", ret |-> None]

\* The paths a vault is opened from: with and without an extension.
Paths == {<< "vault", "kdbx" >>, << "vault" >>}

\* save() is not running on the vault opened from `path`.
SaveIdle(path) ==
    [pc |-> "idle", path |-> path, temp_path |-> None, err |-> None,
     before |-> None, renamed |-> FALSE, saves |-> 0]

\* An AppInput message.
Msg(name, arg) == [msg |-> name, arg |-> arg]

\* Result<(), String>
Ok == << "Ok" >>

Err(e) == << "Err", e >>

\* PasswordConfirmation as its init() leaves it. Of its fields, `message` and
\* `processing` are left out: no handler reads them.
DialogInit ==
    [visible |-> FALSE, action_id |-> << "" >>, password |-> "", error |-> None]

\* The fields of App as init() sets them.
AppInit ==
    [unsaved_changes |-> FALSE, is_saving |-> FALSE, current_group_uuid |-> None,
     password_confirmation |-> DialogInit]

\* No message has been handled and no save has been started.
NoHist ==
    [handled |-> Msg("none", None), app_before |-> AppInit, sent |-> << >>,
     db_at_spawn |-> InitialDb, dest_at_spawn |-> Serialize(InitialDb)]

\* The entry browser as EntryBrowser::init leaves it, with what the model
\* remembers of the last selection and the last output.
BrowserInit ==
    [trash_mode |-> FALSE, group |-> None, selected_entry |-> None,
     inbox |-> << >>, in_trash |-> FALSE, out |-> None]

\* App::new(database_path) of the terminal UI.
TuiNew(database_path) ==
    [state |-> "Locked",
     input_mode |-> "PasswordEntry",
     focus |-> "Sidebar",
     database_path |-> database_path,
     database |-> None,
     root_group |-> None,
     selected_entry |-> None,
     expanded_groups |-> {},
     sidebar_selected_index |-> 0,
     tree_items |-> << >>,
     password_input |-> << >>,
     error_message |-> None,
     search_query |-> << >>,
     search_results |-> << >>,
     search_selected_index |-> 0]

\* The state after unlock(path, password) of a file that holds `vault`, with
\* the desktop App running; the terminal UI is as constructed.
Opened(path, vault) ==
    /\ db = vault
    /\ issued = Len(NodeUuids(vault.root))
    /\ purged = {}
    /\ last = NoCall
    /\ pre = vault
    /\ calls = 0
    /\ disk = (path :> Serialize(vault))
    /\ save = SaveIdle(path)
    /\ app = AppInit
    /\ inbox = << >>
    /\ workers = << >>
    /\ hist = NoHist
    /\ browser = BrowserInit
    /\ tui = TuiNew(path)

\* The state after unlock(path, password).
Unlocked(path) == Opened(path, InitialDb)

Init == Unlocked(<< "vault", "kdbx" >>)

\* Uuid::new_v4(): a UUID never handed out before.
new_v4 == issued + 1

\* What every call leaves behind: the new vault, the call and its pre-state.
Call(op, uuid, entry, r, drew, final) ==
    /\ calls < MaxCalls
    /\ calls' = calls + 1
    /\ db' = r.db
    /\ issued' = IF drew THEN issued + 1 ELSE issued
    /\ purged' = IF final
                 THEN purged \cup (TreeUuids(db.root) \ TreeUuids(r.db.root))
                 ELSE purged
    /\ last' = [op |-> op, uuid |-> uuid, entry |-> entry, res |-> r.res, ret |-> r.ret]
    /\ pre' = db

\* A call made on the vault alone, no save running and no GUI around it.
Apply(op, uuid, entry, r, drew, final) ==
    /\ Call(op, uuid, entry, r, drew, final)
    /\ UNCHANGED << disk, save, guiVars >>

AddEntry ==
    \E parent \in UuidArgs, entry \in AddDrafts :
        Apply("add_entry", parent, Some(entry),
              add_entry(db, parent, entry, new_v4), TRUE, FALSE)

AddGroup ==
    \E parent \in UuidArgs, group \in GroupDrafts :
          Apply("add_group", parent, Some(group),
                add_group(db, parent, group, new_v4), TRUE, FALSE)

UpdateEntry ==
    \E uuid \in UuidArgs :
        LET entry == Draft(uuid, "Mail", EmptyMap) IN
        Apply("update_entry", uuid, Some(entry), update_entry(db, entry), FALSE, FALSE)

\* get_or_create_recycle_bin draws a UUID only when the vault has no bin.
DrawsBin == db.meta.recyclebin_uuid = None

DeleteEntry ==
    \E uuid \in UuidArgs :
          Apply("delete_entry", uuid, None, delete_entry(db, uuid, new_v4),
                DrawsBin, FALSE)

DeleteGroup ==
    \E uuid \in UuidArgs :
          Apply("delete_group", uuid, None, delete_group(db, uuid, new_v4),
                DrawsBin, FALSE)

DeleteEntryPermanently ==
    \E uuid \in UuidArgs :
        Apply("delete_entry_permanently", uuid, None,
              delete_entry_permanently(db, uuid), FALSE, TRUE)

DeleteGroupPermanently ==
    \E uuid \in UuidArgs :
        Apply("delete_group_permanently", uuid, None,
              delete_group_permanently(db, uuid), FALSE, TRUE)

EmptyRecycleBin ==
    Apply("empty_recycle_bin", NotAUuid, None, empty_recycle_bin(db), FALSE, TRUE)

Next ==
    \/ AddEntry
    \/ AddGroup
    \/ UpdateEntry
    \/ DeleteEntry
    \/ DeleteGroup
    \/ DeleteEntryPermanently
    \/ DeleteGroupPermanently
    \/ EmptyRecycleBin

Spec == Init /\ [][Next]_vars

\* A vault file in which a UUID occurs twice: unlock does not check
\* uniqueness, so such a file opens like any other. The entry "Copy" at the
\* root has the UUID of "Bank", which sits in "Finance" before it.
DupDb ==
    [InitialDb EXCEPT !.root.children =
        Append(@, [BankEntry EXCEPT !.fields = Insert(@, "Title", Unprotected("Copy"))])]

InitDup == Opened(<< "vault", "kdbx" >>, DupDb)

SpecDup == InitDup /\ [][Next]_vars

\* --------------------------------------------------- reading entries back

\* The values the opened files give the three extra fields of an entry, None
\* for a field the entry lacks: a text field that may be protected, with
\* bytes that may not be UTF-8, and two attachment fields that hold the bytes
\* themselves or refer to the header's attachment pool by index.
TokenValues ==
    {None, Some(Unprotected("plain")), Some(Protected(AsBytes("hidden"))),
     Some(Protected(<< "raw", "ff" >>))}

InlineValues == {None, Some(Bytes("inline")), Some(BinaryRef("0"))}

RefValues ==
    {None, Some(BinaryRef("0")), Some(BinaryRef("1")), Some(BinaryRef("7")),
     Some(BinaryRef("x"))}

\* The attachment pools of the opened files.
Pools == {<< >>, << "pooled0" >>, << "pooled0", "pooled1" >>}

\* The field map with the fields that are present added.
WithFields(fields, extra) ==
    [k \in (DOMAIN fields) \cup {x \in DOMAIN extra : extra[x] # None} |->
        IF k \in DOMAIN extra /\ extra[k] # None THEN extra[k][1] ELSE fields[k]]

\* The vault of a file whose entry "Bank" has the extra fields and whose
\* header has the pool.
VaultWith(extra, pool) ==
    [InitialDb EXCEPT
        !.root.children[1].children[1].fields = WithFields(@, extra),
        !.header_attachments = pool]

\* What the opened files hold under the reserved key URL: text, nothing, or
\* bytes.
UrlShapes == {"text", "absent", "binary"}

\* The field map with its URL field in the shape.
WithUrl(fields, shape) ==
    CASE shape = "absent" -> [k \in (DOMAIN fields) \ {"URL"} |-> fields[k]]
      [] shape = "binary" -> Insert(fields, "URL", Bytes("inline"))
      [] OTHER -> fields

InitConvert ==
    \E token \in TokenValues, inline \in InlineValues, ref \in RefValues, pool \in Pools,
       shape \in UrlShapes :
        Opened(<< "vault", "kdbx" >>,
               [VaultWith("token" :> token @@ "a.bin" :> inline @@ "b.bin" :> ref, pool)
                    EXCEPT !.root.children[1].children[1].fields = WithUrl(@, shape)])

\* find_entry(uuid): the vault is only read; `ret` is the Option<Entry>.
FindEntry ==
    \E uuid \in UuidArgs :
        LET found == find_entry(db, uuid) IN
        Apply("find_entry", uuid, None,
              [db |-> db, res |-> IF found = None THEN "NotFound" ELSE "Ok",
               ret |-> found],
              FALSE, FALSE)

NextConvert == FindEntry

SpecConvert == InitConvert /\ [][NextConvert]_vars

\* ---------------------------------------------------------- the save steps

coreVars == << db, issued, purged, last, pre, calls >>

\* save() has derived the temporary path, lines 155-162, and is about to
\* create the file.
Begun ==
    [save EXCEPT !.pc = "create",
                 !.temp_path = Some(TempPath(save.path)),
                 !.err = None,
                 !.before = Some(disk[save.path]),
                 !.renamed = FALSE,
                 !.saves = @ + 1]

\* save() is called.
SaveBegin ==
    /\ save.pc = "idle"
    /\ save.saves < MaxSaves
    /\ save' = Begun
    /\ UNCHANGED << coreVars, guiVars, disk >>

\* save() returns the error of the step that failed.
SaveFails(step) ==
    /\ save' = [save EXCEPT !.pc = "returned", !.err = Some(step)]
    /\ UNCHANGED << coreVars, guiVars, disk >>

\* File::create(&temp_path), line 165.
SaveCreate ==
    /\ save.pc = "create"
    /\ \/ /\ disk' = Create(disk, save.temp_path[1])
          /\ save' = [save EXCEPT !.pc = "write"]
          /\ UNCHANGED << coreVars, guiVars >>
       \/ SaveFails("create")

\* self.db.save(&mut file, key), lines 168-170: the codec writes the next
\* chunk, finishes, or fails with the chunks written so far left in the file.
SaveWrite ==
    /\ save.pc = "write"
    /\ LET temp == save.temp_path[1]
           bytes == Serialize(db)
       IN \/ /\ Len(disk[temp]) < Len(bytes)
             /\ disk' = [disk EXCEPT ![temp] = Append(@, bytes[Len(@) + 1])]
             /\ UNCHANGED << coreVars, guiVars, save >>
          \/ /\ Len(disk[temp]) >= Len(bytes)
             /\ save' = [save EXCEPT !.pc = "sync"]
             /\ UNCHANGED << coreVars, guiVars, disk >>
          \/ SaveFails("write")

\* file.sync_all(), line 173.
SaveSync ==
    /\ save.pc = "sync"
    /\ \/ /\ save' = [save EXCEPT !.pc = "rename"]
          /\ UNCHANGED << coreVars, guiVars, disk >>
       \/ SaveFails("sync")

\* std::fs::rename(&temp_path, &self.path), lines 176-179.
SaveRename ==
    /\ save.pc = "rename"
    /\ \/ /\ disk' = Rename(disk, save.temp_path[1], save.path)
          /\ save' = [save EXCEPT !.pc = "returned", !.renamed = TRUE]
          /\ UNCHANGED << coreVars, guiVars >>
       \/ SaveFails("rename")

\* The caller has the result of save() and goes on.
SaveReturn ==
    /\ save.pc = "returned"
    /\ save' = [save EXCEPT !.pc = "idle"]
    /\ UNCHANGED << coreVars, guiVars, disk >>

\* The owner of the vault edits it between two saves.
Edit ==
    /\ save.pc = "idle"
    /\ \/ DeleteEntry
       \/ EmptyRecycleBin

InitSave == \E path \in Paths : Unlocked(path)

NextSave ==
    \/ Edit
    \/ SaveBegin
    \/ SaveCreate
    \/ SaveWrite
    \/ SaveSync
    \/ SaveRename
    \/ SaveReturn

SpecSave == InitSave /\ [][NextSave]_vars

\* -------------------------------------------------------------- the GUI app

\* App::update handles one AppInput message at a time on the main thread; the
\* thread SaveDatabase spawns runs beside it. The vault sits in an
\* Arc<RwLock<KeepassDatabase>>: a handler that mutates takes write() and holds
\* it to its end, the spawned thread holds read() for the length of save().

\* The spawned thread holds the read guard of the vault.
ReadLocked == \E i \in 1..Len(workers) : workers[i].pc = "reading"

\* The mutation messages handled so far or still in the inbox.
Mutations ==
    calls + Cardinality({i \in 1..Len(inbox) :
                            inbox[i].msg \in {"DeleteEntry", "DeleteGroup",
                                              "PermanentDeleteConfirmed",
                                              "GroupSaved", "EntrySaved"}})

\* The UUID strings of the nodes of one kind the tree shows.
Shown(kind) == {UuidStr(n.uuid) : n \in {m \in Nodes(db.root) : m.kind = kind}}

\* The UUID strings of the groups whose sidebar row offers the soft delete:
\* the sidebar has rows for the nodes below the root; the row of the recycle
\* bin offers to empty it and the rows under it the permanent delete.
SoftDeletableGroups ==
    {uuid \in Shown("Group") :
        uuid # UuidStr(db.root.uuid) /\ ~is_inside_recycle_bin(db, uuid)}

\* The user picks "delete" on an entry or a group the tree shows, as one of
\* at most n edits.
UserDeleteWithin(n) ==
    /\ Len(inbox) < MaxInbox
    /\ Mutations < n
    /\ \/ \E uuid \in Shown("Entry") :
             inbox' = Append(inbox, Msg("DeleteEntry", uuid))
       \/ \E uuid \in SoftDeletableGroups :
             inbox' = Append(inbox, Msg("DeleteGroup", uuid))
    /\ UNCHANGED << coreVars, disk, save, app, workers, hist, browser, tui >>

UserDelete == UserDeleteWithin(MaxEdits)

\* The user presses the save shortcut (or cancels an edit, which sends the
\* same message).
RequestSave ==
    /\ Len(inbox) < MaxInbox
    /\ inbox' = Append(inbox, Msg("SaveDatabase", None))
    /\ UNCHANGED << coreVars, disk, save, app, workers, hist, browser, tui >>

\* The GroupSelected message a handler sends to show the current group anew,
\* none when no group is current.
Reselect(a) ==
    IF a.current_group_uuid = None THEN << >>
    ELSE << Msg("GroupSelected", a.current_group_uuid[1]) >>

\* What the handler of DeleteEntry does with the result r of the call on the
\* vault: on Ok the flag is set, the current group is selected anew and a
\* save is requested.
OnDelete(a, r) ==
    IF r.res = "Ok"
    THEN [app |-> [a EXCEPT !.unsaved_changes = TRUE],
          sent |-> Reselect(a) \o << Msg("SaveDatabase", None) >>]
    ELSE [app |-> a, sent |-> << >>]

\* What the handler of DeleteGroup does with the result r: as OnDelete, but
\* when the deleted group was the current one the root becomes current.
OnDeleteGroup(a, r, uuid) ==
    IF r.res = "Ok" /\ a.current_group_uuid = Some(uuid)
    THEN LET root == UuidStr(r.db.root.uuid) IN
         [app |-> [a EXCEPT !.unsaved_changes = TRUE,
                            !.current_group_uuid = Some(root)],
          sent |-> << Msg("GroupSelected", root), Msg("SaveDatabase", None) >>]
    ELSE OnDelete(a, r)

\* The message at the head of the inbox has been handled by a handler that
\* left the fields h.app and sent the messages h.sent.
Handled(h) ==
    /\ app' = h.app
    /\ inbox' = Tail(inbox) \o h.sent
    /\ hist' = [hist EXCEPT !.handled = Head(inbox), !.app_before = app,
                            !.sent = h.sent]

\* AppInput::DeleteEntry: db.write() waits until the read guard is gone.
HandleDeleteEntry ==
    /\ inbox # << >>
    /\ Head(inbox).msg = "DeleteEntry"
    /\ ~ReadLocked
    /\ LET uuid == Head(inbox).arg
           r == delete_entry(db, uuid, new_v4)
       IN /\ Call("delete_entry", uuid, None, r, DrawsBin, FALSE)
          /\ Handled(OnDelete(app, r))
    /\ UNCHANGED << disk, save, workers, browser, tui >>

\* AppInput::DeleteGroup
HandleDeleteGroup ==
    /\ inbox # << >>
    /\ Head(inbox).msg = "DeleteGroup"
    /\ ~ReadLocked
    /\ LET uuid == Head(inbox).arg
           r == delete_group(db, uuid, new_v4)
       IN /\ Call("delete_group", uuid, None, r, DrawsBin, FALSE)
          /\ Handled(OnDeleteGroup(app, r, uuid))
    /\ UNCHANGED << disk, save, workers, browser, tui >>

\* A faulty SaveDatabaseStarts: the unsaved-changes flag is not looked at.
SaveDatabaseStarts_unconditional(a) == ~a.is_saving

\* A faulty SaveDatabaseStarts: a save in flight does not stop a second one.
SaveDatabaseStarts_while_saving(a) == a.unsaved_changes

\* AppInput::SaveDatabase starts a save: there are unsaved changes and no
\* save is in flight.
SaveDatabaseStarts(a) == a.unsaved_changes /\ ~a.is_saving

\* AppInput::SaveDatabase: the message is dropped, or is_saving is set and
\* the thread is spawned.
HandleSaveDatabase ==
    /\ inbox # << >>
    /\ Head(inbox).msg = "SaveDatabase"
    /\ IF SaveDatabaseStarts(app)
       THEN /\ app' = [app EXCEPT !.is_saving = TRUE]
            /\ workers' = Append(workers, [pc |-> "spawned", res |-> None])
            /\ hist' = [hist EXCEPT !.handled = Head(inbox), !.app_before = app,
                                    !.sent = << >>,
                                    !.db_at_spawn = db,
                                    !.dest_at_spawn = disk[save.path]]
       ELSE /\ UNCHANGED << app, workers >>
            /\ hist' = [hist EXCEPT !.handled = Head(inbox), !.app_before = app,
                                    !.sent = << >>]
    /\ inbox' = Tail(inbox)
    /\ UNCHANGED << coreVars, disk, save, browser, tui >>

\* The thread: db_arc.read() succeeds and db.save() is entered.
WorkerRead ==
    /\ save.pc = "idle"
    /\ save.saves < MaxSaves
    /\ \E i \in 1..Len(workers) :
          /\ workers[i].pc = "spawned"
          /\ workers' = [workers EXCEPT ![i].pc = "reading"]
    /\ save' = Begun
    /\ UNCHANGED << coreVars, disk, app, inbox, hist, browser, tui >>

\* The thread: db_arc.read() returns Err, which it does on a poisoned lock.
\* What poisons the lock is outside the model, so the failure is a free choice.
WorkerLockFails ==
    /\ \E i \in 1..Len(workers) :
          /\ workers[i].pc = "spawned"
          /\ workers' = [workers EXCEPT ![i] =
                [pc |-> "sleeping",
                 res |-> Some(Err("Failed to acquire database lock"))]]
    /\ UNCHANGED << coreVars, disk, save, app, inbox, hist, browser, tui >>

\* The thread: db.save() has returned; the read guard is dropped, and the
\* thread sleeps for the rest of the 500 ms.
WorkerReturn ==
    /\ save.pc = "returned"
    /\ \E i \in 1..Len(workers) :
          /\ workers[i].pc = "reading"
          /\ workers' = [workers EXCEPT ![i] =
                [pc |-> "sleeping",
                 res |-> Some(IF save.err = None THEN Ok ELSE Err(save.err[1]))]]
    /\ save' = [save EXCEPT !.pc = "idle"]
    /\ UNCHANGED << coreVars, disk, app, inbox, hist, browser, tui >>

\* A faulty WorkerSend: the thread ends without sending its result.
WorkerSend_silent ==
    /\ \E i \in 1..Len(workers) :
          /\ workers[i].pc = "sleeping"
          /\ workers' = RemoveAt(workers, i)
    /\ UNCHANGED << coreVars, disk, save, app, inbox, hist, browser, tui >>

\* The thread: sender_clone.input(AppInput::SaveFinished(res)), its last step.
WorkerSend ==
    /\ \E i \in 1..Len(workers) :
          /\ workers[i].pc = "sleeping"
          /\ inbox' = Append(inbox, Msg("SaveFinished", workers[i].res[1]))
          /\ workers' = RemoveAt(workers, i)
    /\ UNCHANGED << coreVars, disk, save, app, hist, browser, tui >>

\* A faulty OnSaveFinished: the flag is cleared whatever the result.
OnSaveFinished_always_clean(a, result) ==
    [a EXCEPT !.is_saving = FALSE, !.unsaved_changes = FALSE]

\* AppInput::SaveFinished(result)
OnSaveFinished(a, result) ==
    [a EXCEPT !.is_saving = FALSE,
              !.unsaved_changes = IF result = Ok THEN FALSE ELSE @]

HandleSaveFinished ==
    /\ inbox # << >>
    /\ Head(inbox).msg = "SaveFinished"
    /\ Handled([app |-> OnSaveFinished(app, Head(inbox).arg), sent |-> << >>])
    /\ UNCHANGED << coreVars, disk, save, workers, browser, tui >>

NextGui ==
    \/ UserDelete
    \/ RequestSave
    \/ HandleDeleteEntry
    \/ HandleDeleteGroup
    \/ HandleSaveDatabase
    \/ HandleSaveFinished
    \/ WorkerRead
    \/ WorkerLockFails
    \/ SaveCreate
    \/ SaveWrite
    \/ SaveSync
    \/ SaveRename
    \/ WorkerReturn
    \/ WorkerSend

SpecGui == Init /\ [][NextGui]_vars

\* ------------------------------------------- the GUI app under fair scheduling

\* The saves made, about to be made, and those the messages in the inbox can
\* still start.
SavesAsked ==
    save.saves
    + Cardinality({i \in 1..Len(workers) : workers[i].pc = "spawned"})
    + Cardinality({i \in 1..Len(inbox) :
                      inbox[i].msg \in {"SaveDatabase", "DeleteEntry", "DeleteGroup"}})

\* The user acts as long as the saves asked for are within the bound.
UserActs ==
    /\ SavesAsked < MaxSaves
    /\ \/ UserDelete
       \/ RequestSave

\* The main thread: the GTK main loop hands App::update the next message.
MainThread ==
    \/ HandleDeleteEntry
    \/ HandleDeleteGroup
    \/ HandleSaveDatabase
    \/ HandleSaveFinished

\* The thread spawned by SaveDatabase.
SaveThread ==
    \/ WorkerRead
    \/ WorkerLockFails
    \/ SaveCreate
    \/ SaveWrite
    \/ SaveSync
    \/ SaveRename
    \/ WorkerReturn
    \/ WorkerSend

NextGuiFair ==
    \/ UserActs
    \/ MainThread
    \/ SaveThread

\* db.write() in the handler of a delete returns and the call on the vault is
\* made: the step of HandleDeleteEntry and HandleDeleteGroup, as the counter
\* of calls shows it.
WriteGranted ==
    /\ inbox # << >>
    /\ Head(inbox).msg \in {"DeleteEntry", "DeleteGroup"}
    /\ ~ReadLocked
    /\ calls < MaxCalls
    /\ calls' = calls + 1

\* The main loop keeps dispatching: a handler that can run does run, one that
\* is in db.write() runs once the lock stays free. The operating system keeps
\* scheduling the spawned thread. The user is under no obligation to act.
SpecGuiFair ==
    /\ Init
    /\ [][NextGuiFair]_vars
    /\ WF_calls(WriteGranted)
    /\ WF_vars(HandleSaveDatabase \/ HandleSaveFinished)
    /\ WF_vars(SaveThread)

\* ------------------------------------------------- the GUI app: all edits

\* The handlers of App that change the vault, with the password confirmation
\* dialog the permanent ones go through. What the handlers emit to the
\* sidebar, the search palette, the info bar and the entry browser is left
\* out here; the entry browser's part is the next section.

\* A vault file that has a recycle bin with a group and an entry in it: the
\* initial vault after a group "Old" with an entry "Card" was added under
\* the root and then deleted.
BinnedDb ==
    LET old == InitialIssued + 1
        card == InitialIssued + 2
        bin == InitialIssued + 3
        a == add_group(InitialDb, UuidStr(InitialDb.root.uuid), GroupDraft("Old", << >>), old).db
        b == add_entry(a, UuidStr(old), Draft(EmptyString, "Card", EmptyMap), card).db
    IN delete_group(b, UuidStr(old), bin).db

InitApp == Opened(<< "vault", "kdbx" >>, BinnedDb)

\* The user sends the App one more message. While the password dialog, which
\* is modal, is open, the main window takes no clicks.
CanClick == Len(inbox) < MaxInbox

\* The user picks "delete" in the sidebar or the entry browser.
UserDeletes ==
    /\ CanClick
    /\ ~app.password_confirmation.visible
    /\ UserDeleteWithin(MaxAppEdits)

\* The message at the head of the inbox has been handled by a handler that
\* left the fields h.app and sent the messages h.sent. Of these handlers
\* `hist` keeps no record.
Took(h) ==
    /\ app' = h.app
    /\ inbox' = Tail(inbox) \o h.sent
    /\ UNCHANGED hist

\* The password the vault file is encrypted with, and one that is not it.
MasterPassword == "master"

WrongPassword == "guess"

Passwords == {MasterPassword, WrongPassword}

\* A faulty UnlockOk: any password opens a file that is whole.
UnlockOk_any_password(fs, path, password) ==
    path \in DOMAIN fs /\ IsWhole(fs[path])

\* KeepassDatabase::unlock(path, password) returns Ok: the file is there,
\* holds a whole database, and the password is the one it is encrypted with.
UnlockOk(fs, path, password) ==
    /\ path \in DOMAIN fs
    /\ IsWhole(fs[path])
    /\ password = MasterPassword

\* The action_id strings, as the fixed text and the UUID that follows it.
EmptyBinAction == << "empty_recycle_bin" >>

PermGroupAction(uuid) == << "delete_group_perm:", uuid >>

PermEntryAction(uuid) == << "delete_entry_perm:", uuid >>

\* str::strip_prefix on an action_id.
StripPrefix(action_id, prefix) ==
    IF Len(action_id) = 2 /\ action_id[1] = prefix THEN Some(action_id[2]) ELSE None

\* PasswordConfirmationInput::Show
DialogShow(d, action_id) ==
    [d EXCEPT !.action_id = action_id, !.password = "", !.error = None,
              !.visible = TRUE]

\* PasswordConfirmationInput::PasswordChanged
DialogPasswordChanged(d, pwd) == [d EXCEPT !.password = pwd, !.error = None]

\* PasswordConfirmationInput::Cancel
DialogCancel(d) == [d EXCEPT !.visible = FALSE, !.password = ""]

\* PasswordConfirmationInput::ShowError
DialogShowError(d, err) == [d EXCEPT !.error = Some(err), !.password = ""]

\* The UUID strings of the nodes of one kind below the recycle bin group.
UnderBin(kind) ==
    {uuid \in Shown(kind) : is_inside_recycle_bin(db, uuid) /\ ~is_recycle_bin(db, uuid)}

\* The user clicks a group of the sidebar.
UserSelectsGroup ==
    /\ CanClick
    /\ ~app.password_confirmation.visible
    /\ \E uuid \in Shown("Group") :
          inbox' = Append(inbox, Msg("GroupSelected", uuid))
    /\ UNCHANGED << coreVars, disk, save, app, workers, hist, browser, tui >>

\* The user picks "Empty Recycle Bin" on the row of the bin, or "Delete
\* Permanently" on a row under it.
UserAsksPermanent ==
    /\ CanClick
    /\ ~app.password_confirmation.visible
    /\ \/ \E uuid \in {u \in Shown("Group") : is_recycle_bin(db, u)} :
             inbox' = Append(inbox, Msg("EmptyRecycleBin", uuid))
       \/ \E uuid \in UnderBin("Group") :
             inbox' = Append(inbox, Msg("VerifyPermanentDeleteGroup", uuid))
       \/ \E uuid \in UnderBin("Entry") :
             inbox' = Append(inbox, Msg("VerifyPermanentDeleteEntry", uuid))
    /\ UNCHANGED << coreVars, disk, save, app, workers, hist, browser, tui >>

\* AppInput::EmptyRecycleBin, VerifyPermanentDeleteGroup and
\* VerifyPermanentDeleteEntry: the dialog is shown for the action.
HandleVerify ==
    /\ inbox # << >>
    /\ LET m == Head(inbox)
           action_id == CASE m.msg = "EmptyRecycleBin" -> EmptyBinAction
                          [] m.msg = "VerifyPermanentDeleteGroup" -> PermGroupAction(m.arg)
                          [] m.msg = "VerifyPermanentDeleteEntry" -> PermEntryAction(m.arg)
       IN /\ m.msg \in {"EmptyRecycleBin", "VerifyPermanentDeleteGroup",
                         "VerifyPermanentDeleteEntry"}
          /\ Took([app |-> [app EXCEPT !.password_confirmation =
                                              DialogShow(@, action_id)],
                      sent |-> << >>])
    /\ UNCHANGED << coreVars, disk, save, workers, browser, tui >>

\* PasswordConfirmationInput::Confirm: with a password typed, the dialog
\* sends Confirmed, which is forwarded as PermanentDeleteConfirmed.
DialogConfirm(d) ==
    IF d.password # ""
    THEN << Msg("PermanentDeleteConfirmed",
                [password |-> d.password, action_id |-> d.action_id]) >>
    ELSE << >>

\* The user types a password into the dialog, or leaves it empty, and
\* presses the confirm button: PasswordChanged, then Confirm.
UserConfirms ==
    /\ CanClick
    /\ Mutations < MaxAppEdits
    /\ app.password_confirmation.visible
    /\ \E pwd \in Passwords \cup {""} :
          LET typed == IF pwd = "" THEN app.password_confirmation
                       ELSE DialogPasswordChanged(app.password_confirmation, pwd)
          IN /\ app' = [app EXCEPT !.password_confirmation = typed]
             /\ inbox' = inbox \o DialogConfirm(typed)
             /\ pwd = "" => typed.password = ""
    /\ UNCHANGED << coreVars, disk, save, workers, hist, browser, tui >>

\* The call on the vault an action_id stands for, with its result.
PermanentAction(d, action_id) ==
    IF action_id = EmptyBinAction
    THEN [op |-> "empty_recycle_bin", uuid |-> NotAUuid, r |-> empty_recycle_bin(d)]
    ELSE IF StripPrefix(action_id, "delete_group_perm:") # None
    THEN LET uuid == StripPrefix(action_id, "delete_group_perm:")[1] IN
         [op |-> "delete_group_permanently", uuid |-> uuid,
          r |-> delete_group_permanently(d, uuid)]
    ELSE IF StripPrefix(action_id, "delete_entry_perm:") # None
    THEN LET uuid == StripPrefix(action_id, "delete_entry_perm:")[1] IN
         [op |-> "delete_entry_permanently", uuid |-> uuid,
          r |-> delete_entry_permanently(d, uuid)]
    ELSE [op |-> "no_action", uuid |-> NotAUuid,
          r |-> [db |-> d, res |-> "Ok", ret |-> None]]

\* find_group_by_uuid(root, uuid) finds a group.
GroupFound(d, uuid) == \E g \in Groups(d.root) : UuidStr(g.uuid) = uuid

\* What PermanentDeleteConfirmed does with the result r of the action: on Ok
\* the flag is set, the current group, or the root when it is gone, is
\* selected anew, and a save is requested.
OnPermanentDelete(a, r) ==
    IF r.res = "Ok"
    THEN [app |-> [a EXCEPT !.unsaved_changes = TRUE],
          sent |-> (IF a.current_group_uuid = None THEN << >>
                    ELSE IF GroupFound(r.db, a.current_group_uuid[1])
                    THEN << Msg("GroupSelected", a.current_group_uuid[1]) >>
                    ELSE << Msg("GroupSelected", UuidStr(r.db.root.uuid)) >>)
                   \o << Msg("SaveDatabase", None) >>]
    ELSE [app |-> a, sent |-> << >>]

\* AppInput::PermanentDeleteConfirmed { password, action_id }
HandlePermanentDeleteConfirmed ==
    /\ inbox # << >>
    /\ Head(inbox).msg = "PermanentDeleteConfirmed"
    /\ LET m == Head(inbox).arg IN
       IF ~UnlockOk(disk, save.path, m.password)
       THEN /\ Took([app |-> [app EXCEPT !.password_confirmation =
                                     DialogShowError(@, "Incorrect password")],
                        sent |-> << >>])
            /\ UNCHANGED coreVars
       ELSE LET act == PermanentAction(db, m.action_id)
                closed == [app EXCEPT !.password_confirmation = DialogCancel(@)]
            IN /\ ~ReadLocked
               /\ Call(act.op, act.uuid, None, act.r, FALSE, TRUE)
               /\ Took(OnPermanentDelete(closed, act.r))
    /\ UNCHANGED << disk, save, workers, browser, tui >>

\* AppInput::GroupSelected(uuid) and SearchEntrySelected { entry, group_uuid },
\* the latter carried here by its group_uuid: the group becomes current.
HandleGroupSelected ==
    /\ inbox # << >>
    /\ Head(inbox).msg \in {"GroupSelected", "SearchEntrySelected"}
    /\ Took([app |-> [app EXCEPT !.current_group_uuid = Some(Head(inbox).arg)],
                sent |-> << >>])
    /\ UNCHANGED << coreVars, disk, save, workers, browser, tui >>

\* The group edit form is saved.
UserSavesGroup ==
    /\ CanClick
    /\ ~app.password_confirmation.visible
    /\ Mutations < MaxAppEdits
    /\ inbox' = Append(inbox, Msg("GroupSaved", GroupDraft("Work", << >>)))
    /\ UNCHANGED << coreVars, disk, save, app, workers, hist, browser, tui >>

\* What GroupSaved does with the result r of add_group: on Ok the flag is
\* set, the new group is selected and a save is requested.
OnGroupSaved(a, r) ==
    IF r.res = "Ok"
    THEN [app |-> [a EXCEPT !.unsaved_changes = TRUE],
          sent |-> (IF GroupFound(r.db, r.ret[1])
                    THEN << Msg("GroupSelected", r.ret[1]) >> ELSE << >>)
                   \o << Msg("SaveDatabase", None) >>]
    ELSE [app |-> a, sent |-> << >>]

\* AppInput::GroupSaved(group)
HandleGroupSaved ==
    /\ inbox # << >>
    /\ Head(inbox).msg = "GroupSaved"
    /\ ~ReadLocked
    /\ IF app.current_group_uuid = None
       THEN /\ Took([app |-> app, sent |-> << >>])
            /\ UNCHANGED coreVars
       ELSE LET parent == app.current_group_uuid[1]
                group == Head(inbox).arg
                r == add_group(db, parent, group, new_v4)
            IN /\ Call("add_group", parent, Some(group), r, TRUE, FALSE)
               /\ Took(OnGroupSaved(app, r))
    /\ UNCHANGED << disk, save, workers, browser, tui >>

\* The entries the forms hand over: an entry of the tree, edited, and a new
\* one, which has no UUID yet.
SavedEntries ==
    {Draft(uuid, "Mail", EmptyMap) : uuid \in Shown("Entry") \cup {EmptyString}}

\* The entry edit form, or the entry browser's inline edit, is saved.
UserSavesEntry ==
    /\ CanClick
    /\ ~app.password_confirmation.visible
    /\ Mutations < MaxAppEdits
    /\ \E entry \in SavedEntries : inbox' = Append(inbox, Msg("EntrySaved", entry))
    /\ UNCHANGED << coreVars, disk, save, app, workers, hist, browser, tui >>

\* A faulty OnEntrySaved: the flag is set but no save is requested.
OnEntrySaved_no_save(a) ==
    [app |-> [a EXCEPT !.unsaved_changes = TRUE],
     sent |-> IF a.current_group_uuid = None THEN << >>
              ELSE << Msg("SearchEntrySelected", a.current_group_uuid[1]) >>]

\* What EntrySaved does once the entry is in the vault: the flag is set, the
\* entry is selected in the current group and a save is requested.
OnEntrySaved(a) ==
    [app |-> [a EXCEPT !.unsaved_changes = TRUE],
     sent |-> (IF a.current_group_uuid = None THEN << >>
               ELSE << Msg("SearchEntrySelected", a.current_group_uuid[1]) >>)
              \o << Msg("SaveDatabase", None) >>]

\* AppInput::EntrySaved(entry): update_entry, and when that finds no entry,
\* add_entry under the current group.
HandleEntrySaved ==
    /\ inbox # << >>
    /\ Head(inbox).msg = "EntrySaved"
    /\ ~ReadLocked
    /\ LET entry == Head(inbox).arg
           u == update_entry(db, entry)
       IN IF u.res = "Ok"
          THEN /\ Call("update_entry", entry.uuid, Some(entry), u, FALSE, FALSE)
               /\ Took(OnEntrySaved(app))
          ELSE IF app.current_group_uuid # None
          THEN LET parent == app.current_group_uuid[1]
                   r == add_entry(u.db, parent, entry, new_v4)
               IN /\ Call("add_entry", parent, Some(entry), r, TRUE, FALSE)
                  /\ Took(IF r.res = "Ok" THEN OnEntrySaved(app)
                             ELSE [app |-> app, sent |-> << >>])
          ELSE /\ Call("update_entry", entry.uuid, Some(entry), u, FALSE, FALSE)
               /\ Took([app |-> app, sent |-> << >>])
    /\ UNCHANGED << disk, save, workers, browser, tui >>

\* The save thread is not scheduled here: SpecGui has its steps.
NextApp ==
    \/ UserDeletes
    \/ HandleDeleteEntry
    \/ HandleDeleteGroup
    \/ HandleSaveDatabase
    \/ UserSelectsGroup
    \/ UserAsksPermanent
    \/ UserConfirms
    \/ UserSavesGroup
    \/ UserSavesEntry
    \/ HandleVerify
    \/ HandlePermanentDeleteConfirmed
    \/ HandleGroupSelected
    \/ HandleGroupSaved
    \/ HandleEntrySaved

SpecApp == InitApp /\ [][NextApp]_vars

\* -------------------------------------------------------- the entry browser

\* The App sends the entry browser EntryBrowserInput messages, which the
\* browser handles in the order sent; the user's clicks in the browser arrive
\* in the same queue.

\* The group of the tree with a UUID string.
GroupWith(uuid) == {g \in Groups(db.root) : UuidStr(g.uuid) = uuid}

\* The UUID strings of the entries that are direct children of a group.
EntriesOf(g) ==
    {UuidStr(g.children[i].uuid) :
        i \in {j \in 1..Len(g.children) : g.children[j].kind = "Entry"}}

\* What the handlers of GroupSelected and SearchEntrySelected send the
\* browser for a group, in the order they send it. SelectGroup carries, for
\* the record, what is_inside_recycle_bin said of the group.
SelectionMsgs(uuid) ==
    LET in_trash == is_inside_recycle_bin(db, uuid) IN
    << Msg("SetTrashMode", in_trash),
       Msg("SelectGroup", [uuid |-> uuid, in_trash |-> in_trash]) >>

\* AppInput::GroupSelected(uuid), for a group of the tree.
AppGroupSelected ==
    /\ Len(browser.inbox) < MaxInbox
    /\ \E uuid \in Shown("Group") :
          browser' = [browser EXCEPT !.inbox = @ \o SelectionMsgs(uuid)]
    /\ UNCHANGED << coreVars, disk, save, app, inbox, workers, hist, tui >>

\* AppInput::SearchEntrySelected { entry, group_uuid }, for an entry of the
\* tree and the group that holds it.
AppSearchEntrySelected ==
    /\ Len(browser.inbox) < MaxInbox
    /\ \E uuid \in Shown("Group") : \E g \in GroupWith(uuid) : \E e \in EntriesOf(g) :
          browser' = [browser EXCEPT
                         !.inbox = @ \o SelectionMsgs(uuid) \o << Msg("SelectEntry", e) >>]
    /\ UNCHANGED << coreVars, disk, save, app, inbox, workers, hist, tui >>

\* The user clicks an entry of the group the browser shows.
UserSelectsEntry ==
    /\ Len(browser.inbox) < MaxInbox
    /\ browser.group # None
    /\ \E g \in GroupWith(browser.group[1]) : \E e \in EntriesOf(g) :
          browser' = [browser EXCEPT !.inbox = Append(@, Msg("SelectEntry", e))]
    /\ UNCHANGED << coreVars, disk, save, app, inbox, workers, hist, tui >>

\* The user clicks the delete button of the browser.
UserDeletesEntry ==
    /\ Len(browser.inbox) < MaxInbox
    /\ browser' = [browser EXCEPT !.inbox = Append(@, Msg("DeleteEntry", None))]
    /\ UNCHANGED << coreVars, disk, save, app, inbox, workers, hist, tui >>

\* EntryBrowserInput::SetTrashMode(is_trash)
BrowserSetTrashMode ==
    /\ browser.inbox # << >>
    /\ Head(browser.inbox).msg = "SetTrashMode"
    /\ browser' = [browser EXCEPT !.inbox = Tail(@),
                                  !.trash_mode = Head(browser.inbox).arg]
    /\ UNCHANGED << coreVars, disk, save, app, inbox, workers, hist, tui >>

\* EntryBrowserInput::SelectGroup { uuid, name, group }
BrowserSelectGroup ==
    /\ browser.inbox # << >>
    /\ Head(browser.inbox).msg = "SelectGroup"
    /\ browser' = [browser EXCEPT !.inbox = Tail(@),
                                  !.group = Some(Head(browser.inbox).arg.uuid),
                                  !.in_trash = Head(browser.inbox).arg.in_trash,
                                  !.selected_entry = None,
                                  !.trash_mode = FALSE]
    /\ UNCHANGED << coreVars, disk, save, app, inbox, workers, hist, tui >>

\* EntryBrowserInput::SelectEntry { uuid, entry }
BrowserSelectEntry ==
    /\ browser.inbox # << >>
    /\ Head(browser.inbox).msg = "SelectEntry"
    /\ browser' = [browser EXCEPT !.inbox = Tail(@),
                                  !.selected_entry = Some(Head(browser.inbox).arg)]
    /\ UNCHANGED << coreVars, disk, save, app, inbox, workers, hist, tui >>

\* The EntryBrowserOutput that EntryBrowserInput::DeleteEntry emits for the
\* selected entry.
DeleteOutput(b) ==
    IF b.trash_mode THEN Msg("RequestPermanentDeleteEntry", b.selected_entry[1])
    ELSE Msg("DeleteEntry", b.selected_entry[1])

\* EntryBrowserInput::DeleteEntry: nothing is emitted without a selected
\* entry. The output is kept with what is_inside_recycle_bin said of the group.
BrowserDeleteEntry ==
    /\ browser.inbox # << >>
    /\ Head(browser.inbox).msg = "DeleteEntry"
    /\ browser' = [browser EXCEPT
          !.inbox = Tail(@),
          !.out = IF browser.selected_entry = None THEN None
                  ELSE Some([sent |-> DeleteOutput(browser),
                             in_trash |-> browser.in_trash])]
    /\ UNCHANGED << coreVars, disk, save, app, inbox, workers, hist, tui >>

\* The tree the browser shows is the vault after the soft deletes made so far.
NextBrowse ==
    \/ DeleteEntry
    \/ DeleteGroup
    \/ AppGroupSelected
    \/ AppSearchEntrySelected
    \/ UserSelectsEntry
    \/ UserDeletesEntry
    \/ BrowserSetTrashMode
    \/ BrowserSelectGroup
    \/ BrowserSelectEntry
    \/ BrowserDeleteEntry

SpecBrowse == Init /\ [][NextBrowse]_vars

\* -------------------------------------------------------- the terminal UI

\* keeprs-tui: run_app reads one key event at a time and hands it to
\* handle_key, which changes the fields of App. The terminal UI opens the
\* vault file and never writes to it. Strings the user types are kept as the
\* sequence of their characters; indices count from 0 as in the source.

\* A key code that is not a character, and the code of a character key.
Code(name) == << name >>

Char(c) == << "Char", c >>

\* A key event: its code and whether Ctrl is held.
Key(code, ctrl) == [code |-> code, ctrl |-> ctrl]

\* The characters typed: those of the master password, a blank, and those
\* handle_normal_key gives a meaning to ('k', 'h' and 'l' share their arms
\* with Up, Left and Right).
Chars == {"m", " ", "q", "j", "c", "p"}

\* The key events read: the keys handle_key names, one it does not (F1), and
\* the characters with Ctrl held.
Keys ==
    {Key(Code(n), FALSE) :
        n \in {"Enter", "Backspace", "Esc", "Down", "Up", "Left", "Right", "Tab", "F1"}}
    \cup {Key(Char(c), ctrl) : c \in Chars, ctrl \in BOOLEAN}

\* The characters of the master password.
MasterKeys == << "m" >>

\* The String the typed characters make up, as KeepassDatabase::unlock sees
\* it: the master password, the empty string, or some other string.
Typed(chars) ==
    IF chars = MasterKeys THEN MasterPassword
    ELSE IF chars = << >> THEN ""
    ELSE WrongPassword

\* Vec::get(index)
Get(items, index) == IF index < Len(items) THEN Some(items[index + 1]) ELSE None

RECURSIVE convert_group(_, _)
\* KeepassDatabase::convert_group
convert_group(d, kg) ==
    LET groups == SelectSeq(kg.children, LAMBDA n : n.kind = "Group")
        entries == SelectSeq(kg.children, LAMBDA n : n.kind = "Entry")
    IN [uuid |-> UuidStr(kg.uuid),
        name |-> kg.name,
        children |-> [i \in 1..Len(groups) |-> convert_group(d, groups[i])],
        entries |-> [i \in 1..Len(entries) |->
                        convert_entry(d.header_attachments, entries[i])],
        is_recycle_bin |-> is_recycle_bin(d, UuidStr(kg.uuid))]

\* KeepassDatabase::root_group
root_group(d) == convert_group(d, d.root)

\* The TreeItem of an entry.
EntryItem(entry, depth) ==
    [depth |-> depth, kind |-> "Entry", uuid |-> entry.uuid, name |-> entry.title,
     is_expanded |-> FALSE, has_children |-> FALSE]

RECURSIVE flatten_group(_, _, _)
RECURSIVE FlattenChildren(_, _, _, _)
\* The loop of flatten_group over the child groups from child i on.
FlattenChildren(expanded, children, i, depth) ==
    IF i > Len(children) THEN << >>
    ELSE flatten_group(expanded, children[i], depth)
         \o FlattenChildren(expanded, children, i + 1, depth)

\* App::flatten_group: the items it pushes.
flatten_group(expanded, group, depth) ==
    LET is_expanded == group.uuid \in expanded
        has_children == group.children # << >> \/ group.entries # << >>
        own == IF depth > 0
               THEN << [depth |-> depth, kind |-> "Group", uuid |-> group.uuid,
                        name |-> group.name, is_expanded |-> is_expanded,
                        has_children |-> has_children] >>
               ELSE << >>
        below == IF is_expanded \/ depth = 0
                 THEN FlattenChildren(expanded, group.children, 1, depth + 1)
                      \o [i \in 1..Len(group.entries) |->
                             EntryItem(group.entries[i], depth + 1)]
                 ELSE << >>
    IN own \o below

\* App::rebuild_tree
rebuild_tree(a) ==
    [a EXCEPT !.tree_items =
        IF a.root_group = None THEN << >>
        ELSE flatten_group(a.expanded_groups, a.root_group[1], 0)]

\* A faulty try_unlock: a failed unlock leaves the typed password in place.
try_unlock_keeps_input(a, fs) ==
    IF UnlockOk(fs, a.database_path, Typed(a.password_input))
    THEN LET d == fs[a.database_path][1].vault
             root == root_group(d)
         IN rebuild_tree([a EXCEPT !.expanded_groups = @ \cup {root.uuid},
                                   !.root_group = Some(root),
                                   !.database = Some(d),
                                   !.state = "Unlocked",
                                   !.input_mode = "Normal",
                                   !.error_message = None])
    ELSE [a EXCEPT !.error_message = Some("Failed to unlock")]

\* App::try_unlock on the file system fs.
try_unlock(a, fs) ==
    IF UnlockOk(fs, a.database_path, Typed(a.password_input))
    THEN LET d == fs[a.database_path][1].vault
             root == root_group(d)
         IN rebuild_tree([a EXCEPT !.expanded_groups = @ \cup {root.uuid},
                                   !.root_group = Some(root),
                                   !.database = Some(d),
                                   !.state = "Unlocked",
                                   !.input_mode = "Normal",
                                   !.error_message = None])
    ELSE [a EXCEPT !.error_message = Some("Failed to unlock"),
                   !.password_input = << >>]

\* App::toggle_expand
toggle_expand(a, uuid) ==
    rebuild_tree([a EXCEPT !.expanded_groups =
                     IF uuid \in @ THEN @ \ {uuid} ELSE @ \cup {uuid}])

\* The Entry arm of select_current_item and expand_current: the entry is
\* looked up and shown.
ShowEntry(a, uuid) ==
    IF a.database = None THEN a
    ELSE [a EXCEPT !.selected_entry = find_entry(a.database[1], uuid),
                   !.focus = "EntryView"]

\* App::select_current_item
select_current_item(a) ==
    LET item == Get(a.tree_items, a.sidebar_selected_index) IN
    IF item = None THEN a
    ELSE IF item[1].kind = "Group" THEN toggle_expand(a, item[1].uuid)
    ELSE ShowEntry(a, item[1].uuid)

\* App::move_up
move_up(a) ==
    IF a.sidebar_selected_index > 0
    THEN [a EXCEPT !.sidebar_selected_index = @ - 1]
    ELSE a

\* A faulty move_down: the selection moves down whatever the length.
move_down_unchecked(a) == [a EXCEPT !.sidebar_selected_index = @ + 1]

\* App::move_down
move_down(a) ==
    IF a.sidebar_selected_index + 1 < Len(a.tree_items)
    THEN [a EXCEPT !.sidebar_selected_index = @ + 1]
    ELSE a

\* App::expand_current
expand_current(a) ==
    LET item == Get(a.tree_items, a.sidebar_selected_index) IN
    IF item = None THEN a
    ELSE IF item[1].kind = "Group"
    THEN IF item[1].uuid \notin a.expanded_groups
         THEN rebuild_tree([a EXCEPT !.expanded_groups = @ \cup {item[1].uuid}])
         ELSE a
    ELSE ShowEntry(a, item[1].uuid)

\* App::collapse_current
collapse_current(a) ==
    LET item == Get(a.tree_items, a.sidebar_selected_index) IN
    IF item = None THEN a
    ELSE IF item[1].kind = "Group" /\ item[1].uuid \in a.expanded_groups
    THEN rebuild_tree([a EXCEPT !.expanded_groups = @ \ {item[1].uuid}])
    ELSE a

\* App::start_search
start_search(a) ==
    [a EXCEPT !.input_mode = "Search", !.search_query = << >>,
              !.search_results = << >>, !.search_selected_index = 0]

\* App::exit_search
exit_search(a) ==
    [a EXCEPT !.input_mode = "Normal", !.search_query = << >>,
              !.search_results = << >>]

RECURSIVE collect_entries(_)
RECURSIVE CollectFrom(_, _)
\* The loop of collect_entries over the child groups from child i on.
CollectFrom(children, i) ==
    IF i > Len(children) THEN << >>
    ELSE collect_entries(children[i]) \o CollectFrom(children, i + 1)

\* App::collect_entries: every entry with the UUID of its group.
collect_entries(group) ==
    [i \in 1..Len(group.entries) |->
        [entry |-> group.entries[i], group_uuid |-> group.uuid]]
    \o CollectFrom(group.children, 1)

\* search_query.trim().is_empty()
Blank(query) == \A i \in 1..Len(query) : query[i] = " "

\* How many results perform_search keeps.
ResultLimit == 10

\* What the fuzzy matcher, an external library, can make of the items: some
\* of them, in some order, the first ResultLimit of them.
Rankings(items) ==
    LET most == IF Len(items) < ResultLimit THEN Len(items) ELSE ResultLimit IN
    {r \in UNION {[1..n -> Range(items)] : n \in 0..most} :
        \A i, j \in 1..Len(r) : r[i] = r[j] => i = j}

\* App::perform_search: the Apps it can leave.
perform_search(a) ==
    LET cleared == [a EXCEPT !.search_results = << >>] IN
    IF a.root_group = None \/ Blank(a.search_query) THEN {cleared}
    ELSE {[cleared EXCEPT !.search_results = r, !.search_selected_index = 0] :
             r \in Rankings(collect_entries(a.root_group[1]))}

RECURSIVE find_path_to_entry_static(_, _)
RECURSIVE FindPathFrom(_, _, _)
\* The loop of find_path_to_entry_static over the child groups from child i.
FindPathFrom(children, i, entry_uuid) ==
    IF i > Len(children) THEN None
    ELSE LET found == find_path_to_entry_static(children[i], entry_uuid) IN
         IF found # None THEN found
         ELSE FindPathFrom(children, i + 1, entry_uuid)

\* App::find_path_to_entry_static: the path it leaves when it returns true.
find_path_to_entry_static(group, entry_uuid) ==
    IF \E i \in 1..Len(group.entries) : group.entries[i].uuid = entry_uuid
    THEN Some(<< group.uuid >>)
    ELSE LET found == FindPathFrom(group.children, 1, entry_uuid) IN
         IF found # None THEN Some(<< group.uuid >> \o found[1]) ELSE None

\* The positions of the tree items with the UUID, counted from 0.
PositionsOf(items, uuid) == {i \in 0..(Len(items) - 1) : items[i + 1].uuid = uuid}

\* The least number of a set of numbers that is not empty.
Least(S) == CHOOSE n \in S : \A m \in S : n <= m

\* App::select_search_result
select_search_result(a) ==
    LET result == Get(a.search_results, a.search_selected_index) IN
    IF result = None THEN a
    ELSE LET entry == result[1].entry
             path == IF a.root_group = None THEN None
                     ELSE find_path_to_entry_static(a.root_group[1], entry.uuid)
             opened == [a EXCEPT !.expanded_groups =
                           IF path = None THEN @ ELSE @ \cup Range(path[1]),
                                 !.selected_entry = Some(entry)]
             rebuilt == rebuild_tree(opened)
             at == PositionsOf(rebuilt.tree_items, entry.uuid)
             placed == IF at = {} THEN rebuilt
                       ELSE [rebuilt EXCEPT !.sidebar_selected_index = Least(at)]
         IN [exit_search(placed) EXCEPT !.focus = "EntryView"]

\* handle_password_key
handle_password_key(a, key, fs) ==
    IF key.code = Code("Enter") THEN try_unlock(a, fs)
    ELSE IF key.code[1] = "Char"
    THEN [a EXCEPT !.password_input = Append(@, key.code[2])]
    ELSE IF key.code = Code("Backspace")
    THEN [a EXCEPT !.password_input = SubSeq(@, 1, Len(@) - 1)]
    ELSE IF key.code = Code("Esc") THEN [a EXCEPT !.state = "Quit"]
    ELSE a

\* The arm of handle_normal_key that acts on the sidebar when it has the
\* focus.
InSidebar(a, then) == IF a.focus = "Sidebar" THEN then ELSE a

\* handle_normal_key
handle_normal_key(a, key) ==
    IF key.code = Char("c") /\ key.ctrl THEN [a EXCEPT !.state = "Quit"]
    ELSE IF key.code = Char("p") /\ key.ctrl THEN start_search(a)
    ELSE IF key.code = Char("q") THEN [a EXCEPT !.state = "Quit"]
    ELSE IF key.code \in {Char("j"), Code("Down")} THEN InSidebar(a, move_down(a))
    ELSE IF key.code \in {Char("k"), Code("Up")} THEN InSidebar(a, move_up(a))
    ELSE IF key.code \in {Char("h"), Code("Left")} THEN InSidebar(a, collapse_current(a))
    ELSE IF key.code \in {Char("l"), Code("Right")} THEN InSidebar(a, expand_current(a))
    ELSE IF key.code = Code("Enter") THEN InSidebar(a, select_current_item(a))
    ELSE IF key.code = Code("Tab")
    THEN [a EXCEPT !.focus = IF @ = "Sidebar" THEN "EntryView" ELSE "Sidebar"]
    ELSE IF key.code = Code("Esc")
    THEN [a EXCEPT !.focus = IF @ = "EntryView" THEN "Sidebar" ELSE @]
    ELSE a

\* handle_search_key: the Apps it can leave.
handle_search_key(a, key) ==
    IF key.code = Code("Esc") THEN {exit_search(a)}
    ELSE IF key.code = Code("Enter") THEN {select_search_result(a)}
    ELSE IF key.code = Code("Up")
    THEN {IF a.search_selected_index > 0
          THEN [a EXCEPT !.search_selected_index = @ - 1] ELSE a}
    ELSE IF key.code = Code("Down")
    THEN {IF a.search_selected_index + 1 < Len(a.search_results)
          THEN [a EXCEPT !.search_selected_index = @ + 1] ELSE a}
    ELSE IF key.code[1] = "Char"
    THEN perform_search([a EXCEPT !.search_query = Append(@, key.code[2])])
    ELSE IF key.code = Code("Backspace")
    THEN perform_search([a EXCEPT !.search_query = SubSeq(@, 1, Len(@) - 1)])
    ELSE {a}

\* The key can be typed: a character is, while the text it is added to is
\* shorter than n.
Typable(text, key, n) == key.code[1] = "Char" => Len(text) < n

\* run_app reads a key while the password is asked for.
PasswordKey ==
    /\ tui.state # "Quit"
    /\ tui.input_mode = "PasswordEntry"
    /\ \E key \in Keys :
          /\ Typable(tui.password_input, key, MaxTyped)
          /\ tui' = handle_password_key(tui, key, disk)
    /\ UNCHANGED << coreVars, disk, save, app, inbox, workers, hist, browser >>

\* run_app reads a key in normal mode.
NormalKey ==
    /\ tui.state # "Quit"
    /\ tui.input_mode = "Normal"
    /\ \E key \in Keys : tui' = handle_normal_key(tui, key)
    /\ UNCHANGED << coreVars, disk, save, app, inbox, workers, hist, browser >>

\* run_app reads a key in search mode.
SearchKey ==
    /\ tui.state # "Quit"
    /\ tui.input_mode = "Search"
    /\ \E key \in Keys :
          /\ Typable(tui.search_query, key, MaxQuery)
          /\ tui' \in handle_search_key(tui, key)
    /\ UNCHANGED << coreVars, disk, save, app, inbox, workers, hist, browser >>

\* A vault file without groups and entries.
EmptyVault == [InitialDb EXCEPT !.root.children = << >>]

\* The vault files the terminal UI is started on.
TuiVaults == {BinnedDb, EmptyVault}

InitTui == \E vault \in TuiVaults : Opened(<< "vault", "kdbx" >>, vault)

NextTui ==
    \/ PasswordKey
    \/ NormalKey
    \/ SearchKey

SpecTui == InitTui /\ [][NextTui]_vars

\* ------------------------------------------------------ claims about save

\* C1: until the rename of save() has completed, the destination file holds
\* exactly what it held when save() was called; it never holds a partial
\* write; and when creating, writing or syncing the temporary file fails,
\* save() returns the error without having renamed, the destination as it was.
C1_AtomicSave ==
    /\ save.pc \in {"create", "write", "sync", "rename"} =>
          /\ save.path \in DOMAIN disk
          /\ disk[save.path] = save.before[1]
          /\ ~save.renamed
    /\ (save.pc = "returned" /\ save.err # None) =>
          /\ ~save.renamed
          /\ save.path \in DOMAIN disk
          /\ disk[save.path] = save.before[1]
    /\ save.path \in DOMAIN disk /\ IsWhole(disk[save.path])

\* C1's case: writing the temporary file failed part way, on a vault that
\* differs from the one in the destination file.
C1_Witness ==
    /\ save.pc = "returned"
    /\ save.err = Some("write")
    /\ save.temp_path[1] \in DOMAIN disk
    /\ disk[save.temp_path[1]] # << >>
    /\ ~IsWhole(disk[save.temp_path[1]])
    /\ disk[save.path] # Serialize(db)

\* ------------------------------------------------- claims about soft delete

SoftDeletes == {"delete_entry", "delete_group"}

PermanentDeletes == {"delete_entry_permanently", "delete_group_permanently"}

Adds == {"add_entry", "add_group"}

\* The last call was a soft delete that returned Ok.
Recycled == last.op \in SoftDeletes /\ last.res = "Ok"

\* The UUID number a UUID string names.
UuidOf(str) == str[2]

\* The children of the recycle-bin group of `d`, empty when there is none.
BinChildren(d) ==
    LET bins == {g \in Groups(d.root) :
                    d.meta.recyclebin_uuid # None /\ g.uuid = d.meta.recyclebin_uuid[1]}
    IN IF bins = {} THEN << >> ELSE (CHOOSE g \in bins : TRUE).children

\* C2 as claimed: a soft delete that returns an error leaves the tree and the
\* vault metadata exactly as they were before the call.
C2_FailedSoftDeleteChangesNothing ==
    (last.op \in SoftDeletes /\ last.res # "Ok") => db = pre

\* C3: a successful soft delete relocates the target: the node, fields and
\* subtree unchanged, is the last child of the recycle-bin group, no UUID is
\* copied or dropped, and the UUIDs of the tree are those before the call plus
\* the UUID of the bin when the call created it.
C3_SoftDeleteRelocates ==
    Recycled =>
        LET target == NodesWith(pre.root, UuidOf(last.uuid))
            bin == BinChildren(db)
            created == IF pre.meta.recyclebin_uuid = None
                       THEN {db.meta.recyclebin_uuid[1]} ELSE {}
        IN /\ Cardinality(target) = 1
           /\ bin # << >>
           /\ bin[Len(bin)] \in target
           /\ TreeUuids(db.root) = TreeUuids(pre.root) \cup created
           /\ Len(NodeUuids(db.root)) = Len(NodeUuids(pre.root)) + Cardinality(created)

\* C3's case: a group with a child has been soft-deleted, creating the bin.
C3_Witness ==
    /\ Recycled
    /\ last.op = "delete_group"
    /\ pre.meta.recyclebin_uuid = None
    /\ BinChildren(db) # << >>
    /\ BinChildren(db)[1].kind = "Group"
    /\ BinChildren(db)[1].children # << >>

\* A node is findable: find_entry returns an entry, a group is in the tree.
Findable(d, str, is_group) ==
    IF is_group
    THEN \E g \in Groups(d.root) : UuidStr(g.uuid) = str
    ELSE find_entry(d, str) # None

\* C4 as claimed: after a successful soft delete of x, is_inside_recycle_bin(x)
\* is true, x is findable, and x is no longer a child of its former parent.
C4_RecycledLeavesFormerParent ==
    Recycled =>
        /\ is_inside_recycle_bin(db, last.uuid)
        /\ Findable(db, last.uuid, last.op = "delete_group")
        /\ ParentsOf(db.root, UuidOf(last.uuid))
              \cap ParentsOf(pre.root, UuidOf(last.uuid)) = {}

\* C4 as amended: after a successful soft delete of x, is_inside_recycle_bin(x)
\* is true, x is findable, and x is no longer a child of its former parent
\* unless that parent was the recycle bin itself.
C4_RecycledInsideBin ==
    Recycled =>
        /\ is_inside_recycle_bin(db, last.uuid)
        /\ Findable(db, last.uuid, last.op = "delete_group")
        /\ ParentsOf(db.root, UuidOf(last.uuid))
              \cap ParentsOf(pre.root, UuidOf(last.uuid))
              \subseteq {db.meta.recyclebin_uuid[1]}

\* C4's case: an entry has been soft-deleted out of a group that is not the
\* bin and that is still in the tree.
C4_Witness ==
    /\ Recycled
    /\ last.op = "delete_entry"
    /\ \E p \in ParentsOf(pre.root, UuidOf(last.uuid)) :
          /\ Some(p) # db.meta.recyclebin_uuid
          /\ p \in TreeUuids(db.root)

\* C5: in a vault that has a recycle-bin UUID, a soft delete of that UUID
\* fails with the guard error and changes nothing, and no soft delete of any
\* UUID moves the bin group to another parent.
C5_BinIsNeverRecycled ==
    (last.op \in SoftDeletes /\ pre.meta.recyclebin_uuid # None) =>
        LET bin == pre.meta.recyclebin_uuid[1] IN
        /\ last.uuid = UuidStr(bin) => (last.res = "GuardViolation" /\ db = pre)
        /\ ParentsOf(db.root, bin) = ParentsOf(pre.root, bin)
        /\ db.meta = pre.meta

\* C5's case: delete_group was called with the UUID of an existing bin.
C5_Witness ==
    /\ last.op = "delete_group"
    /\ pre.meta.recyclebin_uuid # None
    /\ last.uuid = UuidStr(pre.meta.recyclebin_uuid[1])
    /\ BinChildren(pre) # << >>
    /\ last.res = "GuardViolation"

\* C6 as claimed: when the metadata names a recycle-bin UUID, a group with
\* that UUID is in the tree.
C6_BinGroupPresent ==
    db.meta.recyclebin_uuid # None =>
        \E g \in Groups(db.root) : g.uuid = db.meta.recyclebin_uuid[1]

\* ------------------------------------------------ claims about the hierarchy

\* C7: every UUID occurs at most once in the tree and every node but the root
\* is held by exactly one group.
C7_StrictHierarchy ==
    /\ UniqueUuids(db.root)
    /\ \A u \in TreeUuids(db.root) \ {db.root.uuid} :
          Cardinality(ParentsOf(db.root, u)) = 1
    /\ ParentsOf(db.root, db.root.uuid) = {}

\* C7's case: a node was added and then a group with a child was moved into
\* the bin.
C7_Witness ==
    /\ Recycled
    /\ last.op = "delete_group"
    /\ Cardinality(TreeUuids(db.root)) >= 5
    /\ \E i \in 1..Len(BinChildren(db)) : BinChildren(db)[i].kind = "Group"

\* C8: a UUID that a permanent delete or empty_recycle_bin took out of the
\* tree is never in the tree again, and no add returns it.
C8_DeletionIsFinal ==
    /\ purged \cap TreeUuids(db.root) = {}
    /\ (last.op \in Adds /\ last.ret # None) => UuidOf(last.ret[1]) \notin purged

\* C8's case: an entry was added, with a draft that carries the UUID text of
\* a purged entry, after that entry was purged.
C8_Witness ==
    /\ last.op = "add_entry"
    /\ last.res = "Ok"
    /\ last.entry[1].uuid # EmptyString
    /\ UuidOf(last.entry[1].uuid) \in purged

\* The parent UUID of the last call names a group of the vault before it.
ParentIsGroup == \E g \in Groups(pre.root) : UuidStr(g.uuid) = last.uuid

\* C9: add_entry and add_group with a parent UUID that names no group return
\* the not-found error and leave the vault unchanged.
C9_AddToMissingParent ==
    (last.op \in Adds /\ ~ParentIsGroup) =>
        /\ last.res = "NotFound"
        /\ last.ret = None
        /\ db = pre
        /\ Len(NodeUuids(db.root)) = Len(NodeUuids(pre.root))

\* C9's case: add_entry was called with the UUID of an entry as the parent.
C9_Witness ==
    /\ last.op = "add_entry"
    /\ last.uuid # NotAUuid
    /\ \E n \in NodesWith(pre.root, UuidOf(last.uuid)) : n.kind = "Entry"
    /\ last.res = "NotFound"

\* The fields of a draft that the round trip compares.
DraftFields(e) ==
    << e.title, e.username, e.password, e.url, e.notes, e.custom_fields >>

\* C10 as claimed: when add_entry returns a UUID, find_entry of it returns an
\* entry whose title, username, password, url, notes and custom fields equal
\* the draft's.
C10_AddRoundTrip ==
    (last.op = "add_entry" /\ last.res = "Ok") =>
        /\ find_entry(db, last.ret[1]) # None
        /\ DraftFields(find_entry(db, last.ret[1])[1]) = DraftFields(last.entry[1])

\* C10 as amended: the round trip holds for every draft none of whose custom
\* fields uses a reserved key (Title, UserName, Password, URL, Notes).
C10_AddRoundTripCustomKeys ==
    (/\ last.op = "add_entry"
     /\ last.res = "Ok"
     /\ (DOMAIN last.entry[1].custom_fields) \cap ReservedKeys = {}) =>
        /\ find_entry(db, last.ret[1]) # None
        /\ DraftFields(find_entry(db, last.ret[1])[1]) = DraftFields(last.entry[1])

\* C10's case: an entry was added from a draft with a custom field.
C10_Witness ==
    /\ last.op = "add_entry"
    /\ last.res = "Ok"
    /\ DOMAIN last.entry[1].custom_fields = {"pin"}
    /\ find_entry(db, last.ret[1]) # None

\* ------------------------------------- claims about update and hard delete

\* The kind of node the last call looks for.
WantedKind ==
    IF last.op \in {"delete_group", "delete_group_permanently"}
    THEN "Group" ELSE "Entry"

\* A node of the kind the last call looks for had the UUID of the call.
TargetExisted ==
    /\ last.uuid # NotAUuid
    /\ \E n \in NodesWith(pre.root, UuidOf(last.uuid)) : n.kind = WantedKind

\* C11: update_entry, delete_entry_permanently and delete_group_permanently
\* return the not-found error and leave the vault unchanged when no node of
\* the requested kind has the UUID, a node of the other kind included.
C11_MissingTargetChangesNothing ==
    (last.op \in PermanentDeletes \cup {"update_entry"} /\ ~TargetExisted) =>
        (last.res = "NotFound" /\ db = pre)

\* C11's case: each of the three was called with the UUID of a node of the
\* other kind; here delete_group_permanently with the UUID of an entry.
C11_Witness ==
    /\ last.op = "delete_group_permanently"
    /\ last.uuid # NotAUuid
    /\ \E n \in NodesWith(pre.root, UuidOf(last.uuid)) : n.kind = "Entry"
    /\ last.res = "NotFound"

\* C12: empty_recycle_bin succeeds in every vault state, and a second call
\* right after it succeeds too and changes nothing.
C12_EmptyBinIdempotent ==
    LET once == empty_recycle_bin(db)
        twice == empty_recycle_bin(once.db)
    IN /\ once.res = "Ok"
       /\ twice.res = "Ok"
       /\ twice.db = once.db
       /\ last.op = "empty_recycle_bin" => (last.res = "Ok" /\ once.db = db)

\* C12's case: empty_recycle_bin was called on a bin with children.
C12_Witness ==
    /\ last.op = "empty_recycle_bin"
    /\ last.res = "Ok"
    /\ BinChildren(pre) # << >>
    /\ BinChildren(db) = << >>

\* The UUIDs of a sequence of UUIDs without UUID number u, order kept.
Without(us, u) == SelectSeq(us, LAMBDA x : x # u)

\* The entry the last call names was a direct child of the recycle bin.
WasEntryInBin ==
    /\ last.uuid # NotAUuid
    /\ \E i \in 1..Len(BinChildren(pre)) :
          /\ BinChildren(pre)[i].kind = "Entry"
          /\ BinChildren(pre)[i].uuid = UuidOf(last.uuid)

\* C13: delete_entry_permanently of an entry that is a direct child of the
\* recycle bin succeeds, find_entry no longer finds it, the bin has one child
\* fewer, and every other node and the metadata are unchanged.
C13_PurgeRecycledEntry ==
    (last.op = "delete_entry_permanently" /\ WasEntryInBin) =>
        LET u == UuidOf(last.uuid) IN
        /\ last.res = "Ok"
        /\ find_entry(db, last.uuid) = None
        /\ Len(BinChildren(db)) = Len(BinChildren(pre)) - 1
        /\ NodeUuids(db.root) = Without(NodeUuids(pre.root), u)
        /\ \A n \in Nodes(pre.root) :
              u \notin Range(NodeUuids(n)) => n \in Nodes(db.root)
        /\ db.meta = pre.meta

\* C13's case: an entry was purged from a bin that held another node too.
C13_Witness ==
    /\ last.op = "delete_entry_permanently"
    /\ WasEntryInBin
    /\ Len(BinChildren(pre)) >= 2
    /\ last.res = "Ok"

\* ------------------------------------------ claims about the recycle bin UUID

\* C17: the recycle bin UUID of the metadata changes only in a soft delete, and
\* only from unset to set: once set it is never changed or cleared.
C17_BinUuidSetOnce ==
    /\ db.meta.recyclebin_uuid # pre.meta.recyclebin_uuid =>
          (last.op \in SoftDeletes /\ pre.meta.recyclebin_uuid = None)
    /\ pre.meta.recyclebin_uuid # None =>
          db.meta.recyclebin_uuid = pre.meta.recyclebin_uuid

\* C17's case: the bin group itself was deleted for good while the metadata
\* named it.
C17_Witness ==
    /\ last.op = "delete_group_permanently"
    /\ last.res = "Ok"
    /\ is_recycle_bin(pre, last.uuid)
    /\ db.meta.recyclebin_uuid # None

\* The UUID strings of the nodes at any depth below the group the metadata
\* names as the recycle bin, that group included.
BinSubtree(d) ==
    {UuidStr(u) : u \in UNION {Range(NodeUuids(g)) :
                                  g \in {h \in Groups(d.root) :
                                            Some(h.uuid) = d.meta.recyclebin_uuid}}}

\* C18: is_inside_recycle_bin(u) is true exactly when the recycle bin UUID is
\* set and u is that UUID or the UUID of a node at any depth in the bin's
\* subtree.
C18_InsideBinExactly ==
    \A u \in UuidArgs :
        is_inside_recycle_bin(db, u) <=>
            /\ db.meta.recyclebin_uuid # None
            /\ \/ u = UuidStr(db.meta.recyclebin_uuid[1])
               \/ u \in BinSubtree(db)

\* C18's case: a node sits below a group that is itself in the bin, and is
\* reported as inside.
C18_Witness ==
    \E i \in 1..Len(BinChildren(db)) :
        LET g == BinChildren(db)[i] IN
        /\ g.kind = "Group"
        /\ g.children # << >>
        /\ is_inside_recycle_bin(db, UuidStr(g.children[1].uuid))

\* ------------------------------------------------- claims about child order

\* The UUIDs of the direct children of a group, in order.
ChildUuids(group) == [i \in 1..Len(group.children) |-> group.children[i].uuid]

\* The node the last call took out of its group to move it into the bin.
Moved ==
    IF last.op \in SoftDeletes /\ last.res = "Ok" THEN {UuidOf(last.uuid)}
    ELSE {}

C20_UpdateIsFullReplace ==
    (last.op = "update_entry" /\ last.res = "Ok") =>
        /\ find_entry(db, last.uuid) # None
        /\ DraftFields(find_entry(db, last.uuid)[1]) = DraftFields(last.entry[1])

\* --------------------------------------------- claims about saving in the GUI

\* C14: at most one save thread is in flight at any time, and a SaveDatabase
\* message handled while is_saving is true starts no second one.
C14_OneSaveInFlight ==
    /\ Len(workers) <= 1
    /\ workers # << >> => app.is_saving
    /\ (hist.handled.msg = "SaveDatabase" /\ hist.app_before.is_saving) =>
          app = hist.app_before

\* C14's case: SaveDatabase was handled, with changes unsaved, while the
\* thread of the save in flight was writing the temporary file.
C14_Witness ==
    /\ hist.handled.msg = "SaveDatabase"
    /\ hist.app_before.is_saving
    /\ hist.app_before.unsaved_changes
    /\ Len(workers) = 1
    /\ workers[1].pc = "reading"
    /\ save.pc = "write"

\* C15: between the moment a save is started (is_saving set, thread spawned)
\* and the moment it finishes (SaveFinished handled), no mutation changes the
\* vault.
C15_NoMutationWhileSaving == app.is_saving => db = hist.db_at_spawn

\* C16: a failed background save is reported through SaveFinished(Err): the
\* thread reports Ok only for a save that renamed; and once SaveFinished(Err) is
\* handled, is_saving is false, unsaved_changes is still true, nothing has
\* been sent or spawned to retry, and the vault file is as it was when the save
\* was started.
C16_FailedSaveReported ==
    /\ \A i \in 1..Len(workers) :
          (workers[i].pc = "sleeping" /\ workers[i].res[1] = Ok) =>
              (save.err = None /\ save.renamed)
    /\ (hist.handled.msg = "SaveFinished" /\ hist.handled.arg # Ok) =>
          /\ ~app.is_saving
          /\ app.unsaved_changes
          /\ hist.sent = << >>
          /\ workers = << >>
          /\ disk[save.path] = hist.dest_at_spawn

\* C16's case: writing the temporary file failed, and the SaveFinished(Err)
\* of that save has been handled.
C16_Witness ==
    /\ hist.handled = Msg("SaveFinished", Err("write"))
    /\ disk[save.path] # Serialize(db)
    /\ app.unsaved_changes

\* C32 as claimed: whenever unsaved_changes is false and no save is in
\* flight, the file on disk holds the current in-memory tree.
C32_UnsavedFlagTruthful ==
    (~app.unsaved_changes /\ ~app.is_saving) => disk[save.path] = Serialize(db)

\* The step handles a SaveDatabase message while unsaved_changes is false.
CleanSaveRequest ==
    /\ inbox # << >>
    /\ Head(inbox).msg = "SaveDatabase"
    /\ hist'.handled = Head(inbox)
    /\ ~app.unsaved_changes

\* C36: a SaveDatabase request handled while unsaved_changes is false starts
\* no worker, writes nothing to disk, and leaves is_saving and
\* unsaved_changes as they were.
C36_CleanSaveIsNoOp ==
    [][CleanSaveRequest =>
          /\ workers' = workers
          /\ disk' = disk
          /\ save' = save
          /\ app' = app
          /\ db' = db]_vars

\* C36's case: after a save went through, SaveDatabase was requested again
\* and handled with the flag clear.
C36_Witness ==
    /\ hist.handled.msg = "SaveDatabase"
    /\ ~hist.app_before.unsaved_changes
    /\ ~app.unsaved_changes
    /\ db # InitialDb
    /\ disk[save.path] = Serialize(db)
    /\ workers = << >>

\* ---------------------------------------------- claims about the save thread

\* The message at the head of the inbox is a mutation whose handler is in
\* db.write() while the save thread holds the read guard.
WaitsForWrite ==
    /\ inbox # << >>
    /\ Head(inbox).msg \in {"DeleteEntry", "DeleteGroup"}
    /\ ReadLocked

\* The SaveFinished messages not yet handled.
Finishing == {i \in 1..Len(inbox) : inbox[i].msg = "SaveFinished"}

\* C33: no operation blocks forever. A save thread that was started delivers
\* exactly one SaveFinished, after which is_saving is false; and a mutation
\* handler that waits for the write guard while the save holds the read guard
\* is granted it: the call it waits to make is made.
C33_NothingBlocksForever ==
    /\ [](Len(workers) + Cardinality(Finishing) = IF app.is_saving THEN 1 ELSE 0)
    /\ (workers # << >>) ~> (workers = << >> /\ Finishing # {})
    /\ app.is_saving ~> ~app.is_saving
    /\ \A n \in 0..MaxCalls : (WaitsForWrite /\ calls = n) ~> (calls = n + 1)

\* C33's case: a delete is at the head of the inbox while the save thread
\* is inside save() with the read guard.
C33_Witness ==
    /\ WaitsForWrite
    /\ save.pc = "write"
    /\ app.is_saving

\* C33's other case: the save started by the first delete was finished and
\* reported, and the second delete has been made.
C33_WitnessGranted ==
    /\ calls = 2
    /\ last.res = "Ok"
    /\ save.saves >= 1
    /\ workers = << >>
    /\ ~app.is_saving
    /\ inbox = << >>

\* ------------------------------------------- claims about edits in the GUI

\* The sequence of messages s is a prefix of t.
IsPrefix(s, t) ==
    /\ Len(s) <= Len(t)
    /\ \A i \in 1..Len(s) : t[i].msg = s[i].msg /\ t[i].arg = s[i].arg

\* The step handles the message at the head of the inbox, one of `names`:
\* every other step of the App's threads and of the user leaves the inbox as
\* it is or appends to it.
HandlesOne(names) ==
    /\ inbox # << >>
    /\ Head(inbox).msg \in names
    /\ ~IsPrefix(inbox, inbox')

\* The messages the handler of the step sent to the App.
SentNow == SubSeq(inbox', Len(inbox), Len(inbox'))

\* The step requests a save.
RequestsSave == \E i \in 1..Len(SentNow) : SentNow[i].msg = "SaveDatabase"

\* The messages whose handlers change the vault.
MutationMsgs ==
    {"DeleteEntry", "DeleteGroup", "PermanentDeleteConfirmed", "GroupSaved", "EntrySaved"}

\* The step made a call on the vault that returned Ok.
MutationSucceeds == calls' = calls + 1 /\ last'.res = "Ok"

\* C34: in the GUI every successful mutation (soft delete, permanent delete,
\* empty recycle bin, add group, add or update entry) sets unsaved_changes
\* and requests a save; a mutation that fails sets neither: unsaved_changes
\* stays as it was and no save is requested.
C34_MutationsSetTheFlag ==
    [][HandlesOne(MutationMsgs) =>
          IF MutationSucceeds
          THEN app'.unsaved_changes /\ RequestsSave
          ELSE app'.unsaved_changes = app.unsaved_changes /\ ~RequestsSave]_vars

\* C34's case: a new entry was saved while a group was current, so that
\* update_entry failed and add_entry went through; the flag is set and the
\* save request is in the inbox.
C34_Witness ==
    /\ last.op = "add_entry"
    /\ last.res = "Ok"
    /\ app.unsaved_changes
    /\ inbox # << >>
    /\ inbox[Len(inbox)].msg = "SaveDatabase"

\* C34's other case: a new entry was saved while no group was current; the
\* call failed, the flag is clear and nothing was sent.
C34_WitnessFailed ==
    /\ last.op = "update_entry"
    /\ last.res = "NotFound"
    /\ ~app.unsaved_changes
    /\ inbox = << >>

\* The calls that delete for good.
FinalOps == {"delete_entry_permanently", "delete_group_permanently", "empty_recycle_bin"}

\* C35: in the GUI no permanent deletion is executed unless the password typed
\* into the confirmation dialog for that action is the one that opens the
\* vault file; a wrong password leaves the vault unchanged and the dialog
\* open with an error (the handler does not close it: it stays as it was).
C35_PasswordGatesPermanentDelete ==
    [][/\ (calls' = calls + 1 /\ last'.op \in FinalOps) =>
             /\ HandlesOne({"PermanentDeleteConfirmed"})
             /\ Head(inbox).arg.password = MasterPassword
             /\ PermanentAction(db, Head(inbox).arg.action_id).op = last'.op
             /\ PermanentAction(db, Head(inbox).arg.action_id).uuid = last'.uuid
       /\ (HandlesOne({"PermanentDeleteConfirmed"})
              /\ Head(inbox).arg.password # MasterPassword) =>
             /\ db' = db
             /\ calls' = calls
             /\ purged' = purged
             /\ SentNow = << >>
             /\ app'.unsaved_changes = app.unsaved_changes
             /\ app'.password_confirmation.visible = app.password_confirmation.visible
             /\ app'.password_confirmation.error # None]_vars

\* C35's case: a group in the bin was deleted for good after the password was
\* confirmed, and the dialog is closed.
C35_Witness ==
    /\ last.op = "delete_group_permanently"
    /\ last.res = "Ok"
    /\ purged # {}
    /\ ~app.password_confirmation.visible
    /\ app.unsaved_changes

\* C35's other case: a wrong password was confirmed; the dialog is open with
\* the error and the vault is the one that was opened.
C35_WitnessWrongPassword ==
    /\ app.password_confirmation.visible
    /\ app.password_confirmation.error # None
    /\ db = BinnedDb
    /\ calls = 0
    /\ inbox = << >>

\* ------------------------------------------- claims about the terminal UI

\* C37: in the terminal UI, once the vault is unlocked, after every key event
\* sidebar_selected_index is the index of an item of tree_items, or 0 when
\* the tree is empty: after moving, collapsing, expanding, toggling and
\* selecting a search result.
C37_SelectionInTree ==
    tui.database # None =>
        \/ tui.sidebar_selected_index < Len(tui.tree_items)
        \/ tui.tree_items = << >> /\ tui.sidebar_selected_index = 0

\* C37's case: the selection is on the last item, the recycle bin, which was
\* collapsed after the group "Old" in it had been expanded and its entry
\* "Card" shown.
C37_Witness ==
    /\ tui.state = "Unlocked"
    /\ tui.sidebar_selected_index >= 1
    /\ tui.sidebar_selected_index = Len(tui.tree_items) - 1
    /\ LET item == tui.tree_items[tui.sidebar_selected_index + 1] IN
          /\ item.kind = "Group"
          /\ item.name = "Recycle Bin"
          /\ ~item.is_expanded
          /\ item.has_children
    /\ \E uuid \in tui.expanded_groups :
          \A i \in 1..Len(tui.tree_items) : tui.tree_items[i].uuid # uuid
    /\ tui.selected_entry # None
    /\ tui.selected_entry[1].title = "Card"

\* C37's other case: a search result was selected; the groups on the way to
\* the entry are expanded and the selection is on the entry.
C37_WitnessSearch ==
    /\ tui.state = "Unlocked"
    /\ tui.input_mode = "Normal"
    /\ tui.focus = "EntryView"
    /\ tui.selected_entry # None
    /\ tui.selected_entry[1].title = "Card"
    /\ tui.sidebar_selected_index >= 3
    /\ tui.tree_items[tui.sidebar_selected_index + 1].uuid = tui.selected_entry[1].uuid
    /\ tui.password_input = MasterKeys

\* C37's third case: the vault has no groups and no entries.
C37_WitnessEmpty ==
    /\ tui.state = "Unlocked"
    /\ tui.tree_items = << >>
    /\ tui.sidebar_selected_index = 0

\* C38: in the terminal UI the lock state only moves forward. The App becomes
\* Unlocked only by a try_unlock that succeeds; a try_unlock that fails leaves
\* it Locked in password-entry mode with the typed password cleared and an
\* error message set; and no key event takes an Unlocked App to Locked or to
\* password-entry mode.
C38_LockMovesForward ==
    [][/\ (tui.state # "Unlocked" /\ tui'.state = "Unlocked") =>
             /\ tui.state = "Locked"
             /\ tui.input_mode = "PasswordEntry"
             /\ Typed(tui.password_input) = MasterPassword
             /\ tui' = try_unlock(tui, disk)
       /\ (tui.state = "Locked" /\ Typed(tui.password_input) # MasterPassword) =>
             LET failed == try_unlock(tui, disk) IN
                /\ failed.state = "Locked"
                /\ failed.input_mode = "PasswordEntry"
                /\ failed.password_input = << >>
                /\ failed.error_message # None
                /\ failed.database = None
       /\ tui.state = "Unlocked" =>
             /\ tui'.state \in {"Unlocked", "Quit"}
             /\ tui'.input_mode \in {"Normal", "Search"}
       /\ tui.state = "Quit" => tui' = tui]_vars

\* C38's case: the vault was unlocked and keys were handled since: an entry
\* is shown while the search box is open.
C38_Witness ==
    /\ tui.state = "Unlocked"
    /\ tui.input_mode = "Search"
    /\ tui.focus = "EntryView"
    /\ tui.selected_entry # None
    /\ tui.password_input = MasterKeys

\* C38's other case: an unlock has failed.
C38_WitnessFailed ==
    /\ tui.state = "Locked"
    /\ tui.input_mode = "PasswordEntry"
    /\ tui.password_input = << >>
    /\ tui.error_message # None

\* ---------------------------------------------- claims about what stays put

RECURSIVE Flat(_)
\* The nodes of a subtree in document order, each without its children but
\* with their number: the whole shape of the subtree.
Flat(node) ==
    IF node.kind = "Entry" THEN << node >>
    ELSE LET RECURSIVE kids(_)
             kids(i) == IF i > Len(node.children) THEN << >>
                        ELSE Flat(node.children[i]) \o kids(i + 1)
         IN << [node EXCEPT !.children = Len(@)] >> \o kids(1)

\* C21: a successful update_entry leaves the entry's UUID, parent and position
\* unchanged, modifies exactly one entry, and leaves every other node and the
\* metadata unchanged.
C21_UpdateIsLocal ==
    (last.op = "update_entry" /\ last.res = "Ok") =>
        LET was == Flat(pre.root)
            now == Flat(db.root)
            changed == {i \in 1..Len(was) : now[i] # was[i]}
        IN /\ Len(now) = Len(was)
           /\ Cardinality(changed) <= 1
           /\ \A i \in changed :
                 /\ was[i].kind = "Entry"
                 /\ now[i].kind = "Entry"
                 /\ now[i].uuid = was[i].uuid
                 /\ UuidStr(was[i].uuid) = last.uuid
           /\ db.meta = pre.meta

\* C21's case: an entry that has a sibling after it was updated, and changed.
C21_Witness ==
    /\ last.op = "update_entry"
    /\ last.res = "Ok"
    /\ db # pre
    /\ \E g \in Groups(db.root) :
          /\ Len(g.children) >= 2
          /\ UuidStr(g.children[1].uuid) = last.uuid

\* --------------------------------------- claims about which node is deleted

RECURSIVE RemoveFirst(_, _, _)
\* The group without the first node of kind `kind` with UUID string `uuid`
\* in depth-first pre-order document order, and that node.
RemoveFirst(group, uuid, kind) ==
    LET RECURSIVE from(_)
        from(i) ==
            IF i > Len(group.children) THEN [group |-> group, removed |-> None]
            ELSE LET node == group.children[i] IN
                 IF node.kind = kind /\ UuidStr(node.uuid) = uuid
                 THEN [group |-> [group EXCEPT !.children = RemoveAt(@, i)],
                       removed |-> Some(node)]
                 ELSE IF node.kind = "Group" /\ RemoveFirst(node, uuid, kind).removed # None
                 THEN [group |-> [group EXCEPT !.children =
                                     ReplaceAt(@, i, RemoveFirst(node, uuid, kind).group)],
                       removed |-> RemoveFirst(node, uuid, kind).removed]
                 ELSE from(i + 1)
    IN from(1)

\* C22: a permanent delete removes exactly one node, the first node of the
\* requested kind with the UUID in depth-first pre-order document order, which
\* for an entry is the node find_entry returned for that UUID.
C22_DeletesFirstInDocumentOrder ==
    (last.op \in PermanentDeletes /\ last.res = "Ok") =>
        LET first == RemoveFirst(pre.root, last.uuid, WantedKind) IN
        /\ first.removed # None
        /\ db.root = first.group
        /\ last.op = "delete_entry_permanently" =>
              find_entry(pre, last.uuid) =
                  Some(convert_entry(pre.header_attachments, first.removed[1]))

\* ------------------------------------------- claims about the entry browser

\* C23: once a group has been selected, the entry browser is in trash mode
\* exactly when is_inside_recycle_bin was true of the group, and its
\* DeleteEntry action emits a permanent-delete request for a group in the bin
\* and a soft-delete request for a group outside it.
C23_DeleteAgreesWithBin ==
    /\ (/\ browser.group # None
        /\ \A i \in 1..Len(browser.inbox) : browser.inbox[i].msg # "SelectGroup") =>
          browser.trash_mode = browser.in_trash
    /\ browser.out # None =>
          (browser.out[1].sent.msg = "RequestPermanentDeleteEntry"
              <=> browser.out[1].in_trash)

\* ------------------------------------------------- claims about conversion

\* The stored entry the last find_entry converted.
Stored == CHOOSE n \in NodesWith(pre.root, UuidOf(last.uuid)) : n.kind = "Entry"

\* The keys of the stored entry outside the reserved five whose value has a
\* tag.
KeysTagged(tag) ==
    {k \in (DOMAIN Stored.fields) \ ReservedKeys : Stored.fields[k].tag = tag}

\* An attachment reference resolves: it is a number and a position of the pool.
Resolves(r) ==
    /\ ParseUsize(r) # None
    /\ ParseUsize(r)[1] < Len(pre.header_attachments)

\* C24: an attachment reference that is no number or no position of the pool
\* is skipped without failing: find_entry still returns the entry, with every
\* plain custom field and every other attachment converted and only the
\* unresolved attachment left out.
C24_BadReferenceSkipped ==
    (last.op = "find_entry" /\ last.res = "Ok") =>
        LET e == last.ret[1]
            names == {a.filename : a \in e.attachments}
        IN /\ \A k \in KeysTagged("Unprotected") :
                 k \in DOMAIN e.custom_fields /\ e.custom_fields[k] = Stored.fields[k].val
           /\ \A k \in KeysTagged("Bytes") :
                 [filename |-> k, data |-> Stored.fields[k].val] \in e.attachments
           /\ \A k \in KeysTagged("BinaryRef") :
                 IF Resolves(Stored.fields[k].val)
                 THEN [filename |-> k,
                       data |-> pre.header_attachments[ParseUsize(Stored.fields[k].val)[1] + 1]]
                          \in e.attachments
                 ELSE k \notin names /\ k \notin DOMAIN e.custom_fields
           /\ names = KeysTagged("Bytes")
                        \cup {k \in KeysTagged("BinaryRef") : Resolves(Stored.fields[k].val)}

\* C24's case: an entry with a reference past the end of a pool that is not
\* empty, another attachment and a custom field was read back.
C24_Witness ==
    /\ last.op = "find_entry"
    /\ last.res = "Ok"
    /\ pre.header_attachments # << >>
    /\ {"token", "a.bin", "b.bin"} \subseteq DOMAIN Stored.fields
    /\ Stored.fields["b.bin"] = BinaryRef("7")
    /\ Stored.fields["a.bin"] = BinaryRef("0")
    /\ Stored.fields["token"] = Unprotected("plain")
    /\ Cardinality(last.ret[1].attachments) = 1

\* The texts the display entry holds outside its password.
TextsOf(e) ==
    {e.title, e.username, e.url, e.notes}
        \cup {e.custom_fields[k] : k \in DOMAIN e.custom_fields}
        \cup (IF e.otp = None THEN {} ELSE {e.otp[1]})

\* C25: conversion does not materialize protected text other than the
\* password: the entry find_entry returns does not hold the plain text of a
\* protected value stored under a non-reserved key.
C25_ProtectedStaysProtected ==
    (last.op = "find_entry" /\ last.res = "Ok") =>
        \A k \in KeysTagged("Protected") :
            FromUtf8(Stored.fields[k].val) # None =>
                FromUtf8(Stored.fields[k].val)[1] \notin TextsOf(last.ret[1])

\* The field of the display entry a reserved key is read into.
ReservedField(e, key) ==
    CASE key = "Title" -> e.title
      [] key = "UserName" -> e.username
      [] key = "Password" -> e.password
      [] key = "URL" -> e.url
      [] key = "Notes" -> e.notes

\* C31: conversion classifies fields by key and variant: the five reserved
\* keys never appear among the custom fields or the attachments of the display
\* entry and read as the empty string when absent; every other key appears
\* exactly once, as a custom field when its value is plain text and as an
\* attachment named by the key when its value is inline binary.
C31_ClassifiedByKeyAndVariant ==
    (last.op = "find_entry" /\ last.res = "Ok") =>
        LET e == last.ret[1]
            named(k) == {a \in e.attachments : a.filename = k}
        IN /\ \A k \in ReservedKeys :
                 /\ k \notin DOMAIN e.custom_fields
                 /\ named(k) = {}
                 /\ k \notin DOMAIN Stored.fields => ReservedField(e, k) = ""
           /\ \A k \in KeysTagged("Unprotected") :
                 /\ k \in DOMAIN e.custom_fields
                 /\ e.custom_fields[k] = Stored.fields[k].val
                 /\ named(k) = {}
           /\ \A k \in KeysTagged("Bytes") :
                 /\ named(k) = {[filename |-> k, data |-> Stored.fields[k].val]}
                 /\ k \notin DOMAIN e.custom_fields

\* C31's case: an entry that lacks a reserved key and has a plain custom
\* field and an inline attachment was read back.
C31_Witness ==
    /\ last.op = "find_entry"
    /\ last.res = "Ok"
    /\ "URL" \notin DOMAIN Stored.fields
    /\ KeysTagged("Unprotected") # {}
    /\ KeysTagged("Bytes") # {}
    /\ last.ret[1].url = ""

\* C31's other case: a reserved key that holds bytes was read back.
C31_WitnessReservedBinary ==
    /\ last.op = "find_entry"
    /\ last.res = "Ok"
    /\ "URL" \in DOMAIN Stored.fields
    /\ Stored.fields["URL"].tag = "Bytes"
    /\ last.ret[1].url = ""

\* ------------------------------------------ claims about the files of a save

\* C26: after a successful save exactly one file remains: the destination
\* holds the serialization of the tree, and the temporary file, whose path
\* differs from the destination, no longer exists.
C26_OnlyDestinationRemains ==
    (save.pc = "returned" /\ save.err = None) =>
        /\ DOMAIN disk = {save.path}
        /\ disk[save.path] = Serialize(db)
        /\ save.temp_path[1] # save.path
        /\ save.temp_path[1] \notin DOMAIN disk
        /\ save.temp_path[1] = save.path \o << "tmp" >>

\* C26's case: the last save of the run succeeded and changed what the
\* destination holds.
C26_Witness ==
    /\ save.pc = "returned"
    /\ save.err = None
    /\ save.saves = MaxSaves
    /\ disk[save.path] # save.before[1]

\* ------------------------------------------- claims about creating the bin

\* C27: a recycle call on a vault without a recycle bin UUID creates exactly
\* one new group, with a fresh UUID, icon 43 and no children of its own, as the
\* last child of the root, records its UUID in the metadata and sets the
\* enabled flag; a recycle call on a vault with a bin UUID creates no group and
\* leaves the metadata alone, and what it moves goes into that bin.
C27_LazyBinCreation ==
    last.op \in SoftDeletes =>
        IF pre.meta.recyclebin_uuid = None
        THEN LET bin == db.root.children[Len(db.root.children)] IN
             /\ TreeUuids(db.root) \ TreeUuids(pre.root) = {bin.uuid}
             /\ bin.uuid \notin purged
             /\ Cardinality(Groups(db.root)) = Cardinality(Groups(pre.root)) + 1
             /\ bin.kind = "Group"
             /\ bin.icon_id = Some(TrashIcon)
             /\ bin.children = IF last.res = "Ok"
                               THEN << CHOOSE n \in Nodes(pre.root) :
                                           n.kind = WantedKind /\ n.uuid = UuidOf(last.uuid) >>
                               ELSE << >>
             /\ db.meta = [recyclebin_uuid |-> Some(bin.uuid),
                           recyclebin_enabled |-> Some(TRUE)]
        ELSE /\ TreeUuids(db.root) \subseteq TreeUuids(pre.root)
             /\ db.meta = pre.meta
             /\ last.res = "Ok" =>
                   UuidOf(last.uuid) \in
                       {BinChildren(db)[i].uuid : i \in 1..Len(BinChildren(db))}

\* C27's case: a second node was recycled into the bin the first call made.
C27_Witness ==
    /\ last.op \in SoftDeletes
    /\ last.res = "Ok"
    /\ pre.meta.recyclebin_uuid # None
    /\ Len(BinChildren(db)) >= 2
    /\ Cardinality(Groups(db.root)) = Cardinality(Groups(InitialDb.root)) + 1

\* The positions in Flat(root) of the groups with UUID number u.
FlatGroupsAt(root, u) ==
    {i \in 1..Len(Flat(root)) : Flat(root)[i].kind = "Group" /\ Flat(root)[i].uuid = u}

\* C28: empty_recycle_bin removes exactly the descendants of the recycle bin
\* group: the bin stays where it is with no children, the metadata and every
\* node outside the bin are unchanged; without a recycle bin UUID the call
\* changes nothing and creates no bin.
C28_EmptyBinFrame ==
    last.op = "empty_recycle_bin" =>
        /\ db.meta = pre.meta
        /\ IF pre.meta.recyclebin_uuid = None
              \/ FlatGroupsAt(pre.root, pre.meta.recyclebin_uuid[1]) = {}
           THEN db = pre
           ELSE LET was == Flat(pre.root)
                    b == CHOOSE i \in FlatGroupsAt(pre.root, pre.meta.recyclebin_uuid[1]) : TRUE
                    size == Len(NodeUuids(CHOOSE g \in Groups(pre.root) :
                                              Some(g.uuid) = pre.meta.recyclebin_uuid))
                IN Flat(db.root) =
                       SubSeq(was, 1, b - 1)
                           \o << [was[b] EXCEPT !.children = 0] >>
                           \o SubSeq(was, b + size, Len(was))

\* C28's case: a bin that held a group with an entry in it was emptied, and
\* nodes outside the bin were left.
C28_Witness ==
    /\ last.op = "empty_recycle_bin"
    /\ \E i \in 1..Len(BinChildren(pre)) :
          /\ BinChildren(pre)[i].kind = "Group"
          /\ BinChildren(pre)[i].children # << >>
    /\ BinChildren(db) = << >>
    /\ Len(db.root.children) >= 2

\* The node the last call looks for, as it was before the call.
Target ==
    CHOOSE n \in NodesWith(pre.root, UuidOf(last.uuid)) : n.kind = WantedKind

\* The last call was a permanent delete of an Active node: one that had a
\* parent and was neither the recycle bin nor inside it.
PurgesActive ==
    /\ last.op \in PermanentDeletes
    /\ TargetExisted
    /\ ParentsOf(pre.root, UuidOf(last.uuid)) # {}
    /\ ~is_inside_recycle_bin(pre, last.uuid)

\* C29: a permanent delete of a node outside the recycle bin removes the node,
\* a group with every descendant, none of them findable afterwards, creates
\* no recycle bin and changes neither the metadata nor the bin's children.
C29_ActiveToPurged ==
    PurgesActive =>
        LET gone == Range(NodeUuids(Target)) IN
        /\ last.res = "Ok"
        /\ TreeUuids(db.root) = TreeUuids(pre.root) \ gone
        /\ \A u \in gone :
              /\ ~Findable(db, UuidStr(u), TRUE)
              /\ ~Findable(db, UuidStr(u), FALSE)
        /\ db.meta = pre.meta
        /\ BinChildren(db) = BinChildren(pre)

\* C29's case: a group with children was deleted for good from outside a
\* recycle bin that held a node.
C29_Witness ==
    /\ PurgesActive
    /\ last.op = "delete_group_permanently"
    /\ Target.children # << >>
    /\ BinChildren(pre) # << >>

\* C29's other case: an entry was deleted for good from a vault that has no
\* recycle bin.
C29_WitnessNoBin ==
    /\ PurgesActive
    /\ last.op = "delete_entry_permanently"
    /\ pre.meta.recyclebin_uuid = None

\* The last call created a node.
Created == last.op \in Adds /\ last.res = "Ok"

\* C30: add_entry and add_group return a UUID that was not in the tree before
\* the call, whatever the uuid field of the draft, and the new node is
\* findable under it; a group made by add_group has the draft's name and no
\* children, whatever children the draft carries.
C30_EngineChoosesUuid ==
    Created =>
        LET u == UuidOf(last.ret[1]) IN
        /\ last.ret[1][1] = "uuid"
        /\ u \notin TreeUuids(pre.root)
        /\ last.ret[1] # last.entry[1].uuid
        /\ TreeUuids(db.root) = TreeUuids(pre.root) \cup {u}
        /\ Findable(db, last.ret[1], last.op = "add_group")
        /\ last.op = "add_group" =>
              \A g \in NodesWith(db.root, u) :
                  /\ g.kind = "Group"
                  /\ g.name = last.entry[1].name
                  /\ g.children = << >>

\* C30's case: add_group was given a draft that carries a child group.
C30_Witness ==
    /\ Created
    /\ last.op = "add_group"
    /\ last.entry[1].children # << >>

\* C30's other case: add_entry was given a draft whose uuid field names a node
\* of the tree.
C30_WitnessDraftUuid ==
    /\ Created
    /\ last.op = "add_entry"
    /\ last.entry[1].uuid # EmptyString
    /\ UuidOf(last.entry[1].uuid) \in TreeUuids(pre.root)

====
